---- MODULE Spec2Model ----
(***************************************************************************)
(* Model of the animation engine in src/src/animation: key-framed tracks,  *)
(* the animation timeline (time position, looping, clamping), signals and  *)
(* the bounded event queue (mod.rs), poses and their blending, retargeting *)
(* from a shared resource, the container of animations, and the actions of *)
(* a state machine on it (machine/state.rs).                               *)
(*                                                                         *)
(* Specifications.  SpecKeys: a track filled by add_key_frame.  SpecTrack: *)
(* a track filled by add_key_frame and set_key_frames, and sampled.        *)
(* SpecAnim: the timeline of an animation without signals.  SpecSignal:    *)
(* an animation with signals, a few ticks in either direction.             *)
(* SpecOverflow: forward ticks that overflow the event queue.              *)
(* SpecContainer: a container filled, emptied, updated and loaded.         *)
(* SpecStateAction: state actions on a container between updates.          *)
(* SpecPose: a pose blended with other poses.  SpecApply: a pose applied   *)
(* to a scene graph.  SpecResolve: an animation resolved from a resource.  *)
(* SpecShared: threads that resolve from one resource while a writer       *)
(* replaces its content, under weak fairness.                              *)
(* SpecSkeleton: tracks on the nodes of a small tree, enabled and disabled *)
(* by subtree.  SpecSample: a track with frames on both sides of time 0,   *)
(* sampled.  SpecPlayback: a one-shot animation updated with one dt, under *)
(* weak fairness.  SpecLoop: a looped animation ticked forward, its events *)
(* drained.  SpecLength: the tracks of an animation written through        *)
(* get_tracks_mut and resolved.  SpecFlagged: signals with their enabled   *)
(* flag set or cleared.  SpecContainerShared: a container resolved while a *)
(* writer replaces the content of the resource.                            *)
(*                                                                         *)
(* Numbers.  f32 times, speeds and time steps are modelled by integers:    *)
(* sums, products and comparisons of small integers are exact in f32.      *)
(* Values computed with a division (interpolated poses) are exact          *)
(* rationals [n, d] in lowest terms.  Vec3 is modelled by one coordinate   *)
(* (every Vec3 operation used is component-wise); a rotation is modelled   *)
(* by its angle about one fixed axis.                                      *)
(***************************************************************************)
EXTENDS Integers, Sequences, FiniteSets

VARIABLES
    track,      \* the Track being built and sampled (Track::new() at first)
    anim,       \* the Animation (Animation::default() at first)
    result,     \* what the last query returned (get_local_pose, pop_event)
    last,       \* history: the last operation, its argument, the time before it
    crossings,  \* history: ids of all signal crossings, in generation order
    popped,     \* history: ids returned by pop_event, in order
    ticks,      \* history: number of steps counted by a bounded specification
    pool,       \* the Pool of the AnimationContainer
    graph,      \* the scene graph: the live nodes, their names and transforms
    blend,      \* an AnimationPose that is blended and applied to the graph
    resource,   \* the Model shared behind Arc<Mutex<..>>: its scene
    lock,       \* the Mutex of the resource: its holder, Unlocked or Poisoned
    threads,    \* the callers of resolve on the shared resource, and a writer
    resolving,  \* the record AnimationContainer::resolve comes to next, 0 outside
    panicked    \* whether the last operation ended in panic!

vars == <<track, anim, result, last, crossings, popped, ticks,
          pool, graph, blend, resource, lock, threads, resolving, panicked>>

\* The state outside the single track and the single animation.
world == <<pool, graph, blend, resource, lock, threads, resolving, panicked>>

\* The single track and the single animation, and their histories.
solo == <<track, anim, result, crossings, popped, ticks>>

(***************************************************************************)
(* Bounds of the model.                                                    *)
(***************************************************************************)
MaxFrames == 3      \* key frames per track
MaxKeyTime == 2     \* largest key frame time handed to a track
MaxTracks == 2      \* tracks per animation
MaxDt == 3          \* largest time step of a tick
MaxSignals == 2     \* signals per animation in the signal specification
MaxTicks == 2       \* ticks in the signal specification
MaxCrossings == 36  \* signal crossings in the overflow specification
MaxAnimations == 2  \* records of the pool of the container
MaxGeneration == 2  \* largest generation of a record of the pool
MaxUpdates == 2     \* calls of update_animations on the container
MaxBlends == 1      \* calls of blend_with on the pose since it was created
MaxResolvers == 2   \* threads that call resolve on the shared resource
MaxWrites == 2      \* writes of the shared resource by the writer

(***************************************************************************)
(* Option<T>.                                                              *)
(***************************************************************************)
None == [some |-> FALSE]
Some(v) == [some |-> TRUE, value |-> v]

Max(S) == CHOOSE x \in S : \A y \in S : y <= x
Min(S) == CHOOSE x \in S : \A y \in S : x <= y
Abs(x) == IF x < 0 THEN -x ELSE x

RECURSIVE Gcd(_, _)
Gcd(a, b) == IF b = 0 THEN a ELSE Gcd(b, a % b)

\* The rational n/d (d # 0) in lowest terms with a positive denominator.
Rat(n, d) ==
    LET g == Gcd(Abs(n), Abs(d))
        s == IF d < 0 THEN -1 ELSE 1
    IN  [n |-> (s * n) \div g, d |-> (s * d) \div g]

(***************************************************************************)
(* crate::core::math                                                       *)
(***************************************************************************)
clampf(a, min, max) ==
    IF a < min THEN min ELSE IF a > max THEN max ELSE a

\* n wrapped into [min, max); the empty range [0, 0) yields 0.
wrapf(n, min, max) ==
    IF max = min THEN min ELSE min + ((n - min) % (max - min))

\* left + (right - left) * t for the interpolation factor t = tn/td.
lerp(left, right, tn, td) == Rat(left * td + (right - left) * tn, td)

\* Rotations about one axis: the angle moves linearly along the arc.
slerp(left, right, tn, td) == Rat(left * td + (right - left) * tn, td)

(***************************************************************************)
(* KeyFrame and Track                                                      *)
(***************************************************************************)
KeyFrame(time, position, scale, rotation) ==
    [time |-> time, position |-> position, scale |-> scale, rotation |-> rotation]

NoneHandle == 0

TrackDefault ==
    [frames |-> <<>>, enabled |-> TRUE, max_time |-> 0, node |-> NoneHandle]

set_node(t, node) == [t EXCEPT !.node = node]

InsertAt(s, index, e) ==
    SubSeq(s, 1, index) \o <<e>> \o SubSeq(s, index + 1, Len(s))

\* The 0-based index of the first frame with key_frame.time < frame.time;
\* 0 when the loop finds none.
InsertIndex(frames, key_frame) ==
    LET later == {i \in 1..Len(frames) : key_frame.time < frames[i].time}
    IN  IF later = {} THEN 0 ELSE Min(later) - 1

add_key_frame(t, key_frame) ==
    IF key_frame.time > t.max_time
    THEN [t EXCEPT !.frames = Append(@, key_frame), !.max_time = key_frame.time]
    ELSE [t EXCEPT !.frames = InsertAt(@, InsertIndex(t.frames, key_frame), key_frame)]

RECURSIVE MaxTimeFrom(_, _)
MaxTimeFrom(frames, max_time) ==
    IF frames = <<>> THEN max_time
    ELSE MaxTimeFrom(Tail(frames),
                     IF Head(frames).time > max_time THEN Head(frames).time
                     ELSE max_time)

\* Faulty variant: replaces the frames and keeps the old max_time.
set_key_frames_keep_max(t, key_frames) ==
    [t EXCEPT !.frames = key_frames]

set_key_frames(t, key_frames) ==
    [t EXCEPT !.frames = key_frames, !.max_time = MaxTimeFrom(key_frames, 0)]

LocalPose(node, position, scale, rotation) ==
    [node |-> node, position |-> position, scale |-> scale, rotation |-> rotation]

\* A key frame's transform, verbatim.
PoseOfKeyFrame(node, k) ==
    LocalPose(node, Rat(k.position, 1), Rat(k.scale, 1), Rat(k.rotation, 1))

\* The 0-based index of the first frame with frame.time >= time; 0 when the
\* loop finds none.
RightIndex(frames, time) ==
    LET found == {i \in 1..Len(frames) : frames[i].time >= time}
    IN  IF found = {} THEN 0 ELSE Min(found) - 1

\* Faulty variant: extrapolates past the end instead of returning the last frame.
get_local_pose_strict(t, time) ==
    IF t.frames = <<>> THEN None
    ELSE IF time > t.max_time
    THEN Some(PoseOfKeyFrame(t.node, t.frames[Len(t.frames)]))
    ELSE Some(PoseOfKeyFrame(t.node, t.frames[1]))

\* Faulty variant: scans and interpolates with the time as passed, not
\* clamped into [0, max_time].
get_local_pose_unclamped(t, time) ==
    IF t.frames = <<>> THEN None
    ELSE IF time >= t.max_time
    THEN Some(PoseOfKeyFrame(t.node, t.frames[Len(t.frames)]))
    ELSE LET right_index == RightIndex(t.frames, time)
         IN  IF right_index = 0
             THEN Some(PoseOfKeyFrame(t.node, t.frames[1]))
             ELSE LET left == t.frames[right_index]
                      right == t.frames[right_index + 1]
                      tn == time - left.time
                      td == right.time - left.time
                  IN  Some(LocalPose(t.node,
                                     lerp(left.position, right.position, tn, td),
                                     lerp(left.scale, right.scale, tn, td),
                                     slerp(left.rotation, right.rotation, tn, td)))

get_local_pose(t, time) ==
    IF t.frames = <<>> THEN None
    ELSE IF time >= t.max_time
    THEN Some(PoseOfKeyFrame(t.node, t.frames[Len(t.frames)]))
    ELSE LET clamped == clampf(time, 0, t.max_time)
             right_index == RightIndex(t.frames, clamped)
         IN  IF right_index = 0
             THEN Some(PoseOfKeyFrame(t.node, t.frames[1]))
             ELSE LET left == t.frames[right_index]
                      right == t.frames[right_index + 1]
                      tn == clamped - left.time
                      td == right.time - left.time
                  IN  Some(LocalPose(t.node,
                                     lerp(left.position, right.position, tn, td),
                                     lerp(left.scale, right.scale, tn, td),
                                     slerp(left.rotation, right.rotation, tn, td)))

(***************************************************************************)
(* AnimationSignal, AnimationEvent, AnimationPose, Animation               *)
(***************************************************************************)
EventCap == 32

AnimationSignal(id, time) == [id |-> id, time |-> time, enabled |-> TRUE]

AnimationSignal_set_enabled(signal, value) == [signal EXCEPT !.enabled = value]

AnimationSignal_is_enabled(signal) == signal.enabled

AnimationEvent(signal_id) == [signal_id |-> signal_id]

\* AnimationPose: the map from node handle to LocalPose.
PoseDefault == <<>>

add_local_pose(pose, local_pose) ==
    [n \in DOMAIN pose \cup {local_pose.node} |->
        IF n = local_pose.node THEN local_pose ELSE pose[n]]

AnimationDefault ==
    [tracks |-> <<>>, speed |-> 1, length |-> 0, time_position |-> 0,
     enabled |-> TRUE, looped |-> TRUE, pose |-> PoseDefault,
     signals |-> <<>>, events |-> <<>>, resource |-> None]

RECURSIVE LengthFrom(_, _)
LengthFrom(tracks, length) ==
    IF tracks = <<>> THEN length
    ELSE LengthFrom(Tail(tracks),
                    IF Head(tracks).max_time > length THEN Head(tracks).max_time
                    ELSE length)

\* Faulty variant: the length is that of the track just added.
add_track_last_wins(a, t) ==
    [a EXCEPT !.tracks = Append(@, t), !.length = t.max_time]

add_track(a, t) ==
    LET tracks == Append(a.tracks, t)
    IN  [a EXCEPT !.tracks = tracks, !.length = LengthFrom(tracks, a.length)]

\* Faulty variant: commits the time as given.
set_time_position_raw(a, time) ==
    [a EXCEPT !.time_position = time]

\* Faulty variant: clamps whether looped or not.
set_time_position_clamp(a, time) ==
    [a EXCEPT !.time_position = clampf(time, 0, a.length)]

\* Faulty variant: clamps to the end but not to the start.
set_time_position_no_end(a, time) ==
    [a EXCEPT !.time_position =
        IF a.looped THEN wrapf(time, 0, a.length)
        ELSE IF time < 0 THEN 0 ELSE time]

set_time_position(a, time) ==
    IF a.looped
    THEN [a EXCEPT !.time_position = wrapf(time, 0, a.length)]
    ELSE [a EXCEPT !.time_position = clampf(time, 0, a.length)]

\* Faulty variant: rewinding also empties the event queue.
rewind_and_clear(a) == set_time_position([a EXCEPT !.events = <<>>], 0)

rewind(a) == set_time_position(a, 0)

get_time_position(a) == a.time_position

get_speed(a) == a.speed

set_loop(a, state) == [a EXCEPT !.looped = state]

has_ended(a) == ~a.looped /\ a.time_position = a.length

set_speed(a, speed) == [a EXCEPT !.speed = speed]

add_signal(a, signal) == [a EXCEPT !.signals = Append(@, signal)]

RECURSIVE PoseFrom(_, _, _)
PoseFrom(tracks, time, pose) ==
    IF tracks = <<>> THEN pose
    ELSE LET t == Head(tracks)
             local_pose == get_local_pose(t, time)
         IN  PoseFrom(Tail(tracks), time,
                      IF t.enabled /\ local_pose.some
                      THEN add_local_pose(pose, local_pose.value)
                      ELSE pose)

\* Faulty variant: the entries of the previous tick survive.
update_pose_keep(a) == [a EXCEPT !.pose = PoseFrom(a.tracks, a.time_position, a.pose)]

update_pose(a) == [a EXCEPT !.pose = PoseFrom(a.tracks, a.time_position, PoseDefault)]

\* Faulty variant: a signal also fires when the tick starts exactly on its time.
SignalCrossedInclusive(signal, current_time_position, new_time_position) ==
    current_time_position <= signal.time /\ new_time_position >= signal.time

\* The condition of the signal loop of tick.
SignalCrossed(signal, current_time_position, new_time_position) ==
    current_time_position < signal.time /\ new_time_position >= signal.time

\* Faulty variant: the queue grows without a cap.
PushEventUncapped(events, signal) ==
    Append(events, AnimationEvent(signal.id))

\* Faulty variant: a full queue makes room by dropping its oldest event.
PushEventDropOldest(events, signal) ==
    IF Len(events) < EventCap THEN Append(events, AnimationEvent(signal.id))
    ELSE Append(Tail(events), AnimationEvent(signal.id))

\* The body of the signal loop of tick for a crossed signal.
PushEvent(events, signal) ==
    IF Len(events) < EventCap THEN Append(events, AnimationEvent(signal.id))
    ELSE events

RECURSIVE EventsFrom(_, _, _, _)
EventsFrom(signals, current_time_position, new_time_position, events) ==
    IF signals = <<>> THEN events
    ELSE EventsFrom(Tail(signals), current_time_position, new_time_position,
                    IF SignalCrossed(Head(signals), current_time_position,
                                     new_time_position)
                    THEN PushEvent(events, Head(signals))
                    ELSE events)

tick(a, dt) ==
    LET posed == update_pose(a)
        current_time_position == get_time_position(posed)
        new_time_position == current_time_position + dt * get_speed(posed)
        queued == [posed EXCEPT !.events =
                      EventsFrom(posed.signals, current_time_position,
                                 new_time_position, posed.events)]
    IN  set_time_position(queued, new_time_position)

\* Faulty variant: pops the newest event.
pop_event_newest(a) ==
    IF a.events = <<>> THEN [anim |-> a, result |-> None]
    ELSE [anim |-> [a EXCEPT !.events = SubSeq(@, 1, Len(@) - 1)],
          result |-> Some(a.events[Len(a.events)])]

\* pop_event: the animation afterwards and the value returned.
pop_event(a) ==
    IF a.events = <<>> THEN [anim |-> a, result |-> None]
    ELSE [anim |-> [a EXCEPT !.events = Tail(@)], result |-> Some(Head(a.events))]

(***************************************************************************)
(* crate::core::pool::Pool, Handle                                         *)
(*                                                                         *)
(* A generational arena: a vector of records, each with a generation and   *)
(* an optional payload, and a stack of the indices of the vacant records.  *)
(* A handle is the index of a record (from 1 here) and the generation the  *)
(* record had when the payload was spawned.                                *)
(***************************************************************************)
Handle(index, generation) == [index |-> index, generation |-> generation]

PoolNew == [records |-> <<>>, free_stack |-> <<>>]

PoolRecord(generation, payload) == [generation |-> generation, payload |-> payload]

\* The handle spawn will return: a vacant record is reused under its next
\* generation, otherwise a new record is pushed.
spawn_handle(p) ==
    IF p.free_stack # <<>>
    THEN LET index == p.free_stack[Len(p.free_stack)]
         IN  Handle(index, p.records[index].generation + 1)
    ELSE Handle(Len(p.records) + 1, 1)

spawn(p, payload) ==
    LET handle == spawn_handle(p)
    IN  IF p.free_stack # <<>>
        THEN [records |-> [p.records EXCEPT ![handle.index] =
                              PoolRecord(handle.generation, Some(payload))],
              free_stack |-> SubSeq(p.free_stack, 1, Len(p.free_stack) - 1)]
        ELSE [records |-> Append(p.records, PoolRecord(1, Some(payload))),
              free_stack |-> p.free_stack]

is_valid_handle(p, handle) ==
    /\ handle.index \in 1..Len(p.records)
    /\ p.records[handle.index].generation = handle.generation
    /\ p.records[handle.index].payload.some

\* free of a valid handle: the record stays in the vector, vacant.
free(p, handle) ==
    [records |-> [p.records EXCEPT ![handle.index].payload = None],
     free_stack |-> Append(p.free_stack, handle.index)]

\* The predicates handed to retain: |_| true, |_| false and
\* |a| a.is_enabled().
Accepts(pred, payload) ==
    CASE pred = "all" -> TRUE
      [] pred = "none" -> FALSE
      [] pred = "enabled" -> payload.enabled

\* retain: every payload the predicate rejects is freed, in the order of
\* the records.
RECURSIVE RetainFrom(_, _, _)
RetainFrom(p, index, pred) ==
    IF index > Len(p.records) THEN p
    ELSE RetainFrom(
           IF p.records[index].payload.some
              /\ ~Accepts(pred, p.records[index].payload.value)
           THEN free(p, Handle(index, p.records[index].generation))
           ELSE p,
           index + 1, pred)

\* Visit for Pool, written and read back: the records with their
\* generations and the stack of vacant indices, each payload as its own
\* Visit gives it back.
Pool_visit(p, payload_visit) ==
    [records |-> [i \in DOMAIN p.records |->
                    IF p.records[i].payload.some
                    THEN PoolRecord(p.records[i].generation,
                                    Some(payload_visit[p.records[i].payload.value]))
                    ELSE p.records[i]],
     free_stack |-> p.free_stack]

\* The number of records of the vector, vacant ones included.
get_capacity(p) == Len(p.records)

\* The payload of the record at a position counted from 0.
at(p, n) == IF n + 1 \in 1..Len(p.records) THEN p.records[n + 1].payload ELSE None

\* The handles of the payloads iter and iter_mut visit.
alive(p) ==
    {Handle(i, p.records[i].generation) :
        i \in {j \in 1..Len(p.records) : p.records[j].payload.some}}

borrow(p, handle) == p.records[handle.index].payload.value

\* Writes back what was changed through a mutable borrow of the payload.
borrowed_mut(p, handle, payload) ==
    [p EXCEPT !.records[handle.index].payload = Some(payload)]

(***************************************************************************)
(* AnimationContainer: a struct of one field, the pool                     *)
(***************************************************************************)
set_enabled(a, enabled) == [a EXCEPT !.enabled = enabled]

ContainerNew == PoolNew

add(animations, animation) == spawn(animations, animation)

remove(animations, handle) == free(animations, handle)

clear(animations) == PoolNew

try_get_mut(animations, handle) ==
    IF is_valid_handle(animations, handle)
    THEN Some(borrow(animations, handle))
    ELSE None

\* Faulty variant: every animation is ticked, the disabled ones too.
update_animations_all(animations, dt) ==
    [animations EXCEPT !.records =
        [i \in DOMAIN animations.records |->
            IF animations.records[i].payload.some
            THEN [animations.records[i] EXCEPT
                    !.payload = Some(tick(animations.records[i].payload.value, dt))]
            ELSE animations.records[i]]]

update_animations(animations, dt) ==
    [animations EXCEPT !.records =
        [i \in DOMAIN animations.records |->
            IF /\ animations.records[i].payload.some
               /\ animations.records[i].payload.value.enabled
            THEN [animations.records[i] EXCEPT
                    !.payload = Some(tick(animations.records[i].payload.value, dt))]
            ELSE animations.records[i]]]

\* retain(pred): the animations pred rejects are removed.
retain(animations, pred) == RetainFrom(animations, 1, pred)

\* Visit for Track, written and read back into Track::default(): the
\* enabled flag, max_time and the node; the key frames are not stored.
Track_visit(t) ==
    [TrackDefault EXCEPT !.enabled = t.enabled, !.max_time = t.max_time,
                         !.node = t.node]

\* Visit for AnimationSignal, written and read back.
AnimationSignal_visit(signal) ==
    [id |-> signal.id, time |-> signal.time, enabled |-> signal.enabled]

\* Visit for Animation, written and read back into Animation::default():
\* the pose and the event queue are not stored.
Animation_visit(a) ==
    [AnimationDefault EXCEPT
        !.tracks = [i \in DOMAIN a.tracks |-> Track_visit(a.tracks[i])],
        !.speed = a.speed,
        !.length = a.length,
        !.time_position = a.time_position,
        !.resource = a.resource,
        !.looped = a.looped,
        !.enabled = a.enabled,
        !.signals = [i \in DOMAIN a.signals |-> AnimationSignal_visit(a.signals[i])]]

\* The container a visitor gives back after this one was written to it.
saved(animations) ==
    Pool_visit(animations,
               [a \in {animations.records[i].payload.value :
                          i \in {j \in DOMAIN animations.records :
                                    animations.records[j].payload.some}} |->
                  Animation_visit(a)])

\* Visit for AnimationContainer in read mode: whether the check of the
\* capacity panics.
load_panics(animations) == get_capacity(animations) # 0

\* Visit for AnimationContainer in read mode.  The visitor either holds the
\* region of the container or not, and in it the region of the pool or
\* not; a region that is missing ends the visit with an error and leaves
\* the pool as it was.
AnimationContainer_visit(animations, visitor) ==
    IF ~visitor.region
    THEN [animations |-> animations, result |-> "Err", panicked |-> FALSE]
    ELSE IF load_panics(animations)
    THEN [animations |-> animations, result |-> "panic", panicked |-> TRUE]
    ELSE IF ~visitor.pool.some
    THEN [animations |-> animations, result |-> "Err", panicked |-> FALSE]
    ELSE [animations |-> visitor.pool.value, result |-> "Ok", panicked |-> FALSE]

(***************************************************************************)
(* StateAction (machine/state.rs)                                          *)
(***************************************************************************)
StateActionNone == [kind |-> "None"]
RewindAnimation(animation) == [kind |-> "RewindAnimation", animation |-> animation]
EnableAnimation(animation) == [kind |-> "EnableAnimation", animation |-> animation]
DisableAnimation(animation) == [kind |-> "DisableAnimation", animation |-> animation]
EnableRandomAnimation(animation_handles) ==
    [kind |-> "EnableRandomAnimation", animation_handles |-> animation_handles]

\* What iter().choose(rng) can return: nothing of an empty list, otherwise
\* any element.
choose(animation_handles) ==
    IF animation_handles = <<>> THEN {None}
    ELSE {Some(animation_handles[i]) : i \in 1..Len(animation_handles)}

\* Faulty variant: the lookup trusts the index and ignores the generation.
enable_by_index(animations, handle, enabled) ==
    IF /\ handle.index \in 1..Len(animations.records)
       /\ animations.records[handle.index].payload.some
    THEN borrowed_mut(animations, handle,
                      set_enabled(animations.records[handle.index].payload.value,
                                  enabled))
    ELSE animations

\* Faulty variant: the animation is also rewound.
enable_and_rewind(animations, handle, enabled) ==
    LET found == try_get_mut(animations, handle)
    IN  IF found.some
        THEN borrowed_mut(animations, handle,
                          rewind(set_enabled(found.value, enabled)))
        ELSE animations

\* set_enabled(enabled) on the animation of the handle, when there is one.
enable_if_found(animations, handle, enabled) ==
    LET found == try_get_mut(animations, handle)
    IN  IF found.some
        THEN borrowed_mut(animations, handle, set_enabled(found.value, enabled))
        ELSE animations

\* StateAction::apply; chosen is what choose returned.
StateAction_apply(self, animations, chosen) ==
    CASE self.kind = "None" -> animations
      [] self.kind = "RewindAnimation" ->
            LET found == try_get_mut(animations, self.animation)
            IN  IF found.some
                THEN borrowed_mut(animations, self.animation, rewind(found.value))
                ELSE animations
      [] self.kind = "EnableAnimation" ->
            enable_if_found(animations, self.animation, TRUE)
      [] self.kind = "DisableAnimation" ->
            enable_if_found(animations, self.animation, FALSE)
      [] self.kind = "EnableRandomAnimation" ->
            IF chosen.some
            THEN enable_if_found(animations, chosen.value, TRUE)
            ELSE animations

(***************************************************************************)
(* LocalPose and AnimationPose: blending, and applying to the graph        *)
(*                                                                         *)
(* A weight is a rational.  Vec3::scale and Quat::nlerp are not in this    *)
(* source; on one coordinate scale is the product, and for rotations about *)
(* one axis nlerp moves the angle linearly at the weights 0, 1/2 and 1,    *)
(* the only weights used here.                                             *)
(***************************************************************************)
RatAdd(a, b) == Rat(a.n * b.d + b.n * a.d, a.d * b.d)
RatSub(a, b) == Rat(a.n * b.d - b.n * a.d, a.d * b.d)
RatMul(a, b) == Rat(a.n * b.n, a.d * b.d)

Vec3Zero == Rat(0, 1)
Vec3Unit == Rat(1, 1)
QuatIdentity == Rat(0, 1)

vec3_scale(v, weight) == RatMul(v, weight)

nlerp(self, other, weight) == RatAdd(self, RatMul(RatSub(other, self), weight))

\* Faulty variant: the clone keeps the scale of its source.
weighted_clone_keep_scale(self, weight) ==
    [node |-> self.node,
     position |-> vec3_scale(self.position, weight),
     rotation |-> nlerp(QuatIdentity, self.rotation, weight),
     scale |-> self.scale]

weighted_clone(self, weight) ==
    [node |-> self.node,
     position |-> vec3_scale(self.position, weight),
     rotation |-> nlerp(QuatIdentity, self.rotation, weight),
     scale |-> Vec3Unit]

LocalPose_blend_with(self, other, weight) ==
    [self EXCEPT !.position = RatAdd(@, vec3_scale(other.position, weight)),
                 !.rotation = nlerp(@, other.rotation, weight)]

reset(self) == PoseDefault

\* clone_into: the destination is reset and every entry is inserted under
\* the key it has in the source.
clone_into(self, dest) ==
    [handle \in DOMAIN reset(dest) \cup DOMAIN self |-> self[handle]]

\* Faulty variant: a target missing from self receives a plain copy.
RECURSIVE BlendCopyFrom(_, _, _, _)
BlendCopyFrom(self, other, handles, weight) ==
    IF handles = {} THEN self
    ELSE LET handle == CHOOSE h \in handles : TRUE
             other_pose == other[handle]
         IN  BlendCopyFrom(
                IF handle \in DOMAIN self
                THEN [self EXCEPT ![handle] =
                        LocalPose_blend_with(@, other_pose, weight)]
                ELSE add_local_pose(self, other_pose),
                other, handles \ {handle}, weight)

AnimationPose_blend_with_copy(self, other, weight) ==
    BlendCopyFrom(self, other, DOMAIN other, weight)

\* The loop of AnimationPose::blend_with over the entries of other that are
\* still to be visited.
RECURSIVE BlendFrom(_, _, _, _)
BlendFrom(self, other, handles, weight) ==
    IF handles = {} THEN self
    ELSE LET handle == CHOOSE h \in handles : TRUE
             other_pose == other[handle]
         IN  BlendFrom(
                IF handle \in DOMAIN self
                THEN [self EXCEPT ![handle] =
                        LocalPose_blend_with(@, other_pose, weight)]
                ELSE add_local_pose(self, weighted_clone(other_pose, weight)),
                other, handles \ {handle}, weight)

AnimationPose_blend_with(self, other, weight) ==
    BlendFrom(self, other, DOMAIN other, weight)

(***************************************************************************)
(* The scene graph: the live nodes, each with a name and a local           *)
(* transform.  Graph::get and Graph::get_mut return a reference to a node: *)
(* for a handle of no live node they panic.                                *)
(***************************************************************************)
Node(name) ==
    [name |-> name, position |-> Vec3Zero, rotation |-> QuatIdentity,
     scale |-> Vec3Unit, children |-> <<>>]

is_none(handle) == handle = NoneHandle

set_transform(node, local_pose) ==
    [node EXCEPT !.position = local_pose.position,
                 !.rotation = local_pose.rotation,
                 !.scale = local_pose.scale]

ApplyOutcome(g, panic, reported) ==
    [graph |-> g, panicked |-> panic, reported |-> reported]

\* The loop of AnimationPose::apply over the entries in the order the map
\* yields them; a panic ends it and keeps what was written before.
RECURSIVE ApplyFrom(_, _, _, _)
ApplyFrom(self, order, g, reported) ==
    IF order = <<>> THEN ApplyOutcome(g, FALSE, reported)
    ELSE LET node == Head(order)
             local_pose == self[node]
         IN  IF is_none(node)
             THEN ApplyFrom(self, Tail(order), g, reported \cup {node})
             ELSE IF node \notin DOMAIN g
                  THEN ApplyOutcome(g, TRUE, reported)
                  ELSE ApplyFrom(self, Tail(order),
                                 [g EXCEPT ![node] = set_transform(@, local_pose)],
                                 reported)

AnimationPose_apply(self, g, order) == ApplyFrom(self, order, g, {})

\* The orders in which a map can yield its entries.
IterationOrders(self) ==
    {order \in [1..Cardinality(DOMAIN self) -> DOMAIN self] :
        \A i, j \in DOMAIN order : i # j => order[i] # order[j]}

(***************************************************************************)
(* Animation::resolve: retargeting from the shared resource                *)
(*                                                                         *)
(* The resource is a Model: its scene has a graph of its own and a         *)
(* container of animations.  An animation refers to it by                  *)
(* Some(SharedResource) or to no resource by None.                         *)
(***************************************************************************)
SharedResource == "model"

\* The mutex of the resource when no thread holds it.
Unlocked == 0

Model(g, animations) == [graph |-> g, animations |-> animations]

\* Faulty variant: the lock is handed out while another thread holds it.
can_lock_always(l) == TRUE

\* The mutex after a thread panicked while it held the guard: no thread
\* holds it, and every later lock() returns an error.
Poisoned == -1

\* Mutex::lock returns when no thread holds the mutex.
can_lock(l) == l \in {Unlocked, Poisoned}

\* The first reference track whose node, looked up in the graph of the
\* resource, has the name.
RECURSIVE FindRefTrack(_, _, _)
FindRefTrack(name, model, ref_tracks) ==
    IF ref_tracks = <<>> THEN None
    ELSE IF model.graph[Head(ref_tracks).node].name = name
         THEN Some(Head(ref_tracks))
         ELSE FindRefTrack(name, model, Tail(ref_tracks))

\* Faulty variant: the reference track is looked up by the handle.
RECURSIVE FindRefTrackByHandle(_, _, _)
FindRefTrackByHandle(node, model, ref_tracks) ==
    IF ref_tracks = <<>> THEN None
    ELSE IF Head(ref_tracks).node = node
         THEN Some(Head(ref_tracks))
         ELSE FindRefTrackByHandle(node, model, Tail(ref_tracks))

resolve_track_by_handle(t, g, model, ref_animation) ==
    LET found == FindRefTrackByHandle(t.node, model, ref_animation.tracks)
    IN  IF found.some THEN set_key_frames(t, found.value.frames) ELSE t

\* The body of the loop over the tracks, for a track whose node is in the
\* scene graph.
resolve_track(t, g, model, ref_animation) ==
    LET found == FindRefTrack(g[t.node].name, model, ref_animation.tracks)
    IN  IF found.some THEN set_key_frames(t, found.value.frames) ELSE t

\* The loop over the tracks: graph.get panics on the handle of a node that
\* is not in the scene graph, and the tracks resolved before stay resolved.
RECURSIVE ResolveFrom(_, _, _, _, _)
ResolveFrom(done, todo, g, model, ref_animation) ==
    IF todo = <<>> THEN [tracks |-> done, panicked |-> FALSE]
    ELSE IF Head(todo).node \notin DOMAIN g
         THEN [tracks |-> done \o todo, panicked |-> TRUE]
         ELSE ResolveFrom(
                Append(done, resolve_track(Head(todo), g, model, ref_animation)),
                Tail(todo), g, model, ref_animation)

\* Animation::resolve with the lock held; model is what the lock guards.
resolve(a, g, model) ==
    IF a.resource.some
    THEN LET ref_animation == at(model.animations, 0)
         IN  IF ref_animation.some
             THEN LET outcome == ResolveFrom(<<>>, a.tracks, g, model,
                                             ref_animation.value)
                  IN  [anim |-> [a EXCEPT !.tracks = outcome.tracks],
                       panicked |-> outcome.panicked]
             ELSE [anim |-> a, panicked |-> FALSE]
    ELSE [anim |-> a, panicked |-> FALSE]

\* One turn of the loop of AnimationContainer::resolve: resolve of the
\* animation of one record, under the lock of its resource.
resolve_record(animations, index, g, model) ==
    LET outcome == resolve(animations.records[index].payload.value, g, model)
    IN  [animations |-> [animations EXCEPT
                           !.records[index].payload = Some(outcome.anim)],
         panicked |-> outcome.panicked]

(***************************************************************************)
(* Enabling and disabling tracks                                           *)
(***************************************************************************)
enable(t, enabled) == [t EXCEPT !.enabled = enabled]

\* The loop over the tracks of set_tracks_enabled_from: it stops at the
\* first track bound to the node.
EnableFirst(tracks, node, enabled) ==
    LET bound == {i \in 1..Len(tracks) : tracks[i].node = node}
    IN  IF bound = {} THEN tracks
        ELSE [tracks EXCEPT ![Min(bound)] = enable(@, enabled)]

\* The traversal of set_tracks_enabled_from: the node on top of the stack
\* is popped, its children are pushed.
RECURSIVE EnableFrom(_, _, _, _)
EnableFrom(tracks, stack, enabled, g) ==
    IF stack = <<>> THEN tracks
    ELSE LET node == stack[Len(stack)]
         IN  EnableFrom(EnableFirst(tracks, node, enabled),
                        SubSeq(stack, 1, Len(stack) - 1) \o g[node].children,
                        enabled, g)

set_tracks_enabled_from(a, handle, enabled, g) ==
    [a EXCEPT !.tracks = EnableFrom(@, <<handle>>, enabled, g)]

set_node_track_enabled(a, handle, enabled) ==
    [a EXCEPT !.tracks =
        [i \in DOMAIN a.tracks |->
            IF a.tracks[i].node = handle
            THEN enable(a.tracks[i], enabled)
            ELSE a.tracks[i]]]

(***************************************************************************)
(* Inputs                                                                  *)
(***************************************************************************)
KeyTimes == -1..MaxKeyTime

\* Key frames with distinct transforms: position v, scale v + 1, angle 2v.
KeyFrameInputs == {KeyFrame(t, v, v + 1, 2 * v) : t \in KeyTimes, v \in {0, 2}}

SeqsUpTo(S, n) == UNION {[1..k -> S] : k \in 0..n}

\* Frame sets handed to set_key_frames: any order, duplicates included.
KeyFrameSetInputs == SeqsUpTo({k \in KeyFrameInputs : k.position = 0}, 2)

QueryTimes == -2..(MaxKeyTime + 1)

RECURSIVE TrackFrom(_, _)
TrackFrom(t, key_frames) ==
    IF key_frames = <<>> THEN t
    ELSE TrackFrom(add_key_frame(t, Head(key_frames)), Tail(key_frames))

\* The track of a node with one key frame per given time (position = time).
TrackOf(node, times) ==
    TrackFrom(set_node(TrackDefault, node),
              [i \in 1..Len(times) |-> KeyFrame(times[i], times[i], 1, 0)])

\* A track with a single key frame, at the given time: it gives an animation
\* that length and the same pose at every time.
TimelineTrack(length) == TrackOf(2, <<length>>)

\* Tracks handed to add_track: an empty one, and tracks ending at 2 and 4.
TrackInputs == {TrackOf(1, <<>>), TrackOf(1, <<0, 2>>), TrackOf(2, <<1, 4>>)}

TimeInputs == -2..6

SpeedInputs == {-1, 1, 2}

DtInputs == -1..MaxDt

\* Signals handed to add_signal: one at time 1, two sharing time 3.
SignalInputs ==
    {AnimationSignal(1, 1), AnimationSignal(2, 3), AnimationSignal(3, 3)}

\* Animations handed to the container: a one-shot animation of length 2 with
\* a signal at time 1, and a looped animation of length 4.
OneShotAnimation ==
    add_signal(set_loop(add_track(AnimationDefault, TrackOf(1, <<0, 2>>)), FALSE),
               AnimationSignal(1, 1))

LoopedAnimation == add_track(AnimationDefault, TimelineTrack(4))

AnimationInputs ==
    {OneShotAnimation, LoopedAnimation, set_enabled(OneShotAnimation, FALSE)}

ContainerDtInputs == {1, 2}

\* Containers a state machine is attached to: two live animations; the
\* first one removed; its record spawned again under the next generation.
BothAlive == add(add(ContainerNew, OneShotAnimation), LoopedAnimation)

FirstRemoved == remove(BothAlive, Handle(1, 1))

FirstRespawned == add(FirstRemoved, set_enabled(OneShotAnimation, FALSE))

StateActionContainers == {BothAlive, FirstRemoved, FirstRespawned}

\* Handles a caller can hold: of the first spawn of either record, of the
\* second spawn of the first record, of no record at all.
HandleInputs == {Handle(1, 1), Handle(2, 1), Handle(1, 2), Handle(0, 0)}

\* Lists handed to EnableRandomAnimation: empty, one handle, two handles.
RandomListInputs == SeqsUpTo({Handle(1, 1), Handle(2, 1)}, 2)

StateActionInputs ==
    {StateActionNone}
    \cup {RewindAnimation(h) : h \in HandleInputs}
    \cup {EnableAnimation(h) : h \in HandleInputs}
    \cup {DisableAnimation(h) : h \in HandleInputs}
    \cup {EnableRandomAnimation(l) : l \in RandomListInputs}

\* Containers read back by Visit: an empty one, one with an animation,
\* one whose first animation was removed before it was written.
SavedContainers ==
    {saved(animations) :
        animations \in {ContainerNew, FirstRemoved}
                        \cup {add(ContainerNew, a) : a \in AnimationInputs}}

\* Visitors in read mode: without the region of the container, without
\* the region of the pool in it, or with a saved container.
VisitorInputs ==
    {[region |-> FALSE, pool |-> None], [region |-> TRUE, pool |-> None]}
    \cup {[region |-> TRUE, pool |-> Some(animations)] :
             animations \in SavedContainers}

\* Predicates handed to retain.
RetainInputs == {"all", "none", "enabled"}

\* Node handles: none, two live nodes, a node that was deleted.
LiveNodes == {1, 2}

DeletedNode == 3

NodeInputs == {NoneHandle, DeletedNode} \cup LiveNodes

\* Local poses with distinct transforms: position v, scale v + 1, angle 2v.
LocalPoseInputs ==
    {LocalPose(n, Rat(v, 1), Rat(v + 1, 1), Rat(2 * v, 1)) :
        n \in NodeInputs, v \in {1, 2}}

RECURSIVE AnimationPoseFrom(_, _)
AnimationPoseFrom(pose, local_poses) ==
    IF local_poses = <<>> THEN pose
    ELSE AnimationPoseFrom(add_local_pose(pose, Head(local_poses)),
                           Tail(local_poses))

\* Poses of at most two targets.
PoseInputs ==
    {AnimationPoseFrom(PoseDefault, s) : s \in SeqsUpTo(LocalPoseInputs, 2)}

WeightInputs == {Rat(0, 1), Rat(1, 2), Rat(1, 1)}

\* The scene: node 1 is named Hand, node 2 Head.
GraphInput == [n \in LiveNodes |-> Node(IF n = 1 THEN "Hand" ELSE "Head")]

\* Tracks of an animation that is resolved: bound to a node of the scene or
\* to the deleted node, without key frames or with key frames of their own.
ResolveTrackInputs ==
    {TrackOf(n, <<>>) : n \in LiveNodes \cup {DeletedNode}}
    \cup {TrackOf(n, <<0, 3>>) : n \in LiveNodes}

RECURSIVE AnimationFrom(_, _)
AnimationFrom(a, tracks) ==
    IF tracks = <<>> THEN a
    ELSE AnimationFrom(add_track(a, Head(tracks)), Tail(tracks))

ResolveAnimationInputs ==
    {AnimationFrom(AnimationDefault, s) : s \in SeqsUpTo(ResolveTrackInputs, MaxTracks)}

\* The graph of the resource: the same names under other handles, Hand
\* twice.
ResourceGraph ==
    [n \in {5, 6, 7} |-> Node(IF n = 5 THEN "Head" ELSE "Hand")]

\* Resources: one whose animation has two Hand tracks and no Head track,
\* one whose animation has a Head and a Hand track, one without animation.
ResourceInputs ==
    {Model(ResourceGraph,
           add(ContainerNew,
               AnimationFrom(AnimationDefault,
                             <<TrackOf(6, <<1>>), TrackOf(7, <<0, 2>>)>>))),
     Model(ResourceGraph,
           add(ContainerNew,
               AnimationFrom(AnimationDefault,
                             <<TrackOf(5, <<1, 4>>), TrackOf(7, <<2>>)>>))),
     Model(ResourceGraph, ContainerNew)}

\* The two versions of the shared resource a writer switches between.
VersionA ==
    Model(ResourceGraph,
          add(ContainerNew,
              AnimationFrom(AnimationDefault,
                            <<TrackOf(6, <<1>>), TrackOf(7, <<0, 2>>)>>)))

VersionB ==
    Model(ResourceGraph,
          add(ContainerNew,
              AnimationFrom(AnimationDefault,
                            <<TrackOf(5, <<1, 4>>), TrackOf(7, <<2>>)>>)))

Versions == {VersionA, VersionB}

\* The resource in the middle of a write: the first track of the animation
\* already is the one of the new version, the second one not yet.
PartlyWritten(old, new) ==
    Model(new.graph,
          add(ContainerNew,
              AnimationFrom(AnimationDefault,
                            <<at(new.animations, 0).value.tracks[1],
                              at(old.animations, 0).value.tracks[2]>>)))

\* An animation the threads resolve: a Head and a Hand track without
\* key frames, bound to the shared resource.
SharedAnimation ==
    [AnimationFrom(AnimationDefault, <<TrackOf(2, <<>>), TrackOf(1, <<>>)>>)
        EXCEPT !.resource = Some(SharedResource)]

\* The animations the threads resolve: the one above, and one whose first
\* track is bound to a node that was deleted from the scene.
SharedAnimationInputs ==
    {SharedAnimation,
     [AnimationFrom(AnimationDefault,
                    <<TrackOf(DeletedNode, <<>>), TrackOf(1, <<>>)>>)
         EXCEPT !.resource = Some(SharedResource)]}

Resolvers == 1..MaxResolvers

Writer == MaxResolvers + 1

Thread(pc, a) ==
    [pc |-> pc, anim |-> a, input |-> a, next |-> 1, saw |-> {}, writes |-> 0]

\* A skeleton: node 1 has the children 2 and 3, node 3 has the child 4.
SkeletonGraph ==
    [n \in 1..4 |->
        [Node("Bone") EXCEPT
            !.children = IF n = 1 THEN <<2, 3>> ELSE IF n = 3 THEN <<4>> ELSE <<>>]]

\* Tracks bound to the bones; bone 2 also has a track without key frames.
SkeletonTrackInputs ==
    {TrackOf(n, <<0, 2>>) : n \in 1..4} \cup {TrackOf(2, <<>>)}

\* Key frames of a track that is sampled between its frames: times two
\* units apart on either side of 0, position v, scale v + 1, angle 2v.
SampleFrameInputs ==
    {KeyFrame(t, v, v + 1, 2 * v) : t \in {-3, -1, 1, 3}, v \in {0, 4}}

SampleTimeInputs == -4..4

\* Animations that are played to their end: enabled, not looped, a length
\* of 0, 2 or 4, a positive speed, and signals before, at and past the end.
PlaybackLengths == {0, 2, 4}

PlaybackAnimations ==
    {[set_speed(set_loop(add_track(AnimationDefault, TimelineTrack(length)), FALSE),
                speed)
         EXCEPT !.signals = signals] :
        length \in PlaybackLengths, speed \in {1, 2},
        signals \in SeqsUpTo(SignalInputs, MaxSignals)}

\* Animations that are played in a loop: a length of 4 or 5, a positive
\* speed, and signals strictly inside the timeline.
LoopLengths == {4, 5}

LoopAnimations ==
    {[set_speed(set_loop(add_track(AnimationDefault, TimelineTrack(length)), TRUE),
                speed)
         EXCEPT !.signals = signals] :
        length \in LoopLengths, speed \in {1, 2},
        signals \in SeqsUpTo(SignalInputs, MaxSignals)}

\* Signals handed to add_signal as built by AnimationSignal::new, or after
\* set_enabled(false).
FlaggedSignalInputs ==
    {AnimationSignal_set_enabled(signal, value) :
        signal \in SignalInputs, value \in BOOLEAN}

(***************************************************************************)
(* History                                                                 *)
(***************************************************************************)
NoOp ==
    [op |-> "new", arg |-> 0, time |-> 0, new |-> 0, events |-> <<>>,
     crossed |-> <<>>]

Op(name, arg, time) == [NoOp EXCEPT !.op = name, !.arg = arg, !.time = time]

(***************************************************************************)
(* Operations on the track                                                 *)
(***************************************************************************)
AddKeyFrame ==
    /\ Len(track.frames) < MaxFrames
    /\ \E key_frame \in KeyFrameInputs :
        /\ track' = add_key_frame(track, key_frame)
        /\ last' = Op("add_key_frame", key_frame.time, track.max_time)
    /\ UNCHANGED <<anim, result, crossings, popped, ticks, world>>

SetKeyFrames ==
    /\ \E key_frames \in KeyFrameSetInputs :
        /\ track' = set_key_frames(track, key_frames)
        /\ last' = Op("set_key_frames", Len(key_frames), track.max_time)
    /\ UNCHANGED <<anim, result, crossings, popped, ticks, world>>

GetLocalPose ==
    /\ \E time \in QueryTimes :
        /\ result' = get_local_pose(track, time)
        /\ last' = Op("get_local_pose", time, 0)
    /\ UNCHANGED <<track, anim, crossings, popped, ticks, world>>

(***************************************************************************)
(* Operations on the animation                                             *)
(***************************************************************************)
AddTrack ==
    /\ Len(anim.tracks) < MaxTracks
    /\ \E t \in TrackInputs :
        /\ anim' = add_track(anim, t)
        /\ last' = Op("add_track", t.max_time, anim.time_position)
    /\ UNCHANGED <<track, result, crossings, popped, ticks, world>>

SetTimePosition ==
    /\ \E time \in TimeInputs :
        /\ anim' = set_time_position(anim, time)
        /\ last' = Op("set_time_position", time, anim.time_position)
    /\ UNCHANGED <<track, result, crossings, popped, ticks, world>>

Rewind ==
    /\ anim' = rewind(anim)
    /\ last' = Op("rewind", 0, anim.time_position)
    /\ UNCHANGED <<track, result, crossings, popped, ticks, world>>

SetLoop ==
    /\ \E state \in BOOLEAN :
        /\ anim' = set_loop(anim, state)
        /\ last' = Op("set_loop", IF state THEN 1 ELSE 0, anim.time_position)
    /\ UNCHANGED <<track, result, crossings, popped, ticks, world>>

SetSpeed ==
    /\ \E speed \in SpeedInputs :
        /\ anim' = set_speed(anim, speed)
        /\ last' = Op("set_speed", speed, anim.time_position)
    /\ UNCHANGED <<track, result, crossings, popped, ticks, world>>

\* History: the ids of the signals whose time lies in (from, to], in the
\* order of the signal list.
RECURSIVE CrossedIds(_, _, _)
CrossedIds(signals, from, to) ==
    IF signals = <<>> THEN <<>>
    ELSE (IF from < Head(signals).time /\ Head(signals).time <= to
          THEN <<Head(signals).id>> ELSE <<>>)
         \o CrossedIds(Tail(signals), from, to)

TickStep(dt) ==
    LET new == anim.time_position + dt * anim.speed
        crossed == CrossedIds(anim.signals, anim.time_position, new)
    IN  /\ anim' = tick(anim, dt)
        /\ last' = [op |-> "tick", arg |-> dt, time |-> anim.time_position,
                    new |-> new, events |-> anim.events, crossed |-> crossed]
        /\ crossings' = crossings \o crossed
        /\ UNCHANGED <<track, result, popped, world>>

Tick ==
    /\ \E dt \in DtInputs : TickStep(dt)
    /\ UNCHANGED ticks

\* update_animations calls tick; this specification counts the calls.
TickCounted ==
    /\ ticks < MaxTicks
    /\ \E dt \in DtInputs : TickStep(dt)
    /\ ticks' = ticks + 1

\* Forward ticks, as long as the history of crossings has room.
TickForward ==
    /\ \E dt \in 1..MaxDt :
        /\ Len(crossings)
             + Len(CrossedIds(anim.signals, anim.time_position,
                              anim.time_position + dt * anim.speed))
             <= MaxCrossings
        /\ TickStep(dt)
    /\ UNCHANGED ticks

AddSignal ==
    /\ Len(anim.signals) < MaxSignals
    /\ \E signal \in SignalInputs :
        /\ anim' = add_signal(anim, signal)
        /\ last' = Op("add_signal", signal.id, anim.time_position)
    /\ UNCHANGED <<track, result, crossings, popped, ticks, world>>

(***************************************************************************)
(* Operations on the container                                             *)
(***************************************************************************)
WorldInit ==
    /\ pool = ContainerNew
    /\ graph = <<>>
    /\ blend = PoseDefault
    /\ resource = None
    /\ lock = Unlocked
    /\ threads = <<>>
    /\ resolving = 0
    /\ panicked = FALSE

\* Whether spawn stays within the bounds of the model.
CanSpawn ==
    /\ spawn_handle(pool).index <= MaxAnimations
    /\ spawn_handle(pool).generation <= MaxGeneration

ContainerAdd ==
    /\ ~panicked
    /\ resolving = 0
    /\ CanSpawn
    /\ \E animation \in AnimationInputs :
        /\ pool' = add(pool, animation)
        /\ last' = Op("add", spawn_handle(pool), 0)
    /\ UNCHANGED <<graph, blend, resource, lock, threads, panicked, solo, resolving>>

ContainerRemove ==
    /\ ~panicked
    /\ resolving = 0
    /\ \E handle \in alive(pool) :
        /\ pool' = remove(pool, handle)
        /\ last' = Op("remove", handle, 0)
    /\ UNCHANGED <<graph, blend, resource, lock, threads, panicked, solo, resolving>>

ContainerClear ==
    /\ ~panicked
    /\ resolving = 0
    /\ pool' = clear(pool)
    /\ last' = Op("clear", 0, 0)
    /\ UNCHANGED <<graph, blend, resource, lock, threads, panicked, solo, resolving>>

UpdateAnimations ==
    /\ ~panicked
    /\ resolving = 0
    /\ ticks < MaxUpdates
    /\ \E dt \in ContainerDtInputs :
        /\ pool' = update_animations(pool, dt)
        /\ last' = Op("update_animations", dt, 0)
    /\ ticks' = ticks + 1
    /\ UNCHANGED <<graph, blend, resource, lock, threads, panicked,
                   track, anim, result, crossings, popped, resolving>>

ApplyStateAction ==
    /\ ~panicked
    /\ resolving = 0
    /\ \E action \in StateActionInputs :
        \E chosen \in IF action.kind = "EnableRandomAnimation"
                       THEN choose(action.animation_handles) ELSE {None} :
            /\ pool' = StateAction_apply(action, pool, chosen)
            /\ last' = Op("apply", action, 0)
    /\ UNCHANGED <<graph, blend, resource, lock, threads, panicked, solo, resolving>>

ContainerRetain ==
    /\ ~panicked
    /\ resolving = 0
    /\ \E pred \in RetainInputs :
        /\ pool' = retain(pool, pred)
        /\ last' = Op("retain", pred, 0)
    /\ UNCHANGED <<graph, blend, resource, lock, threads, panicked, solo, resolving>>

\* AnimationContainer::resolve takes the container; the loop starts at the
\* first record.
ContainerResolveStart ==
    /\ ~panicked
    /\ resolving = 0
    /\ resolving' = 1
    /\ last' = Op("resolve", 0, 0)
    /\ UNCHANGED <<pool, graph, blend, resource, lock, threads, panicked, solo>>

\* One turn of the loop: a vacant record is passed over; the animation of
\* a record is resolved by Animation::resolve, which takes the lock of the
\* resource and drops it when it returns, so the lock is free between two
\* animations.  An animation without a resource takes no lock.  On a
\* poisoned mutex lock().unwrap() panics and the pool is left as it was; a
\* panic of graph.get under the guard poisons the mutex.
ContainerResolveNext ==
    /\ ~panicked
    /\ resolving \in 1..Len(pool.records)
    /\ IF pool.records[resolving].payload.some
       THEN /\ pool.records[resolving].payload.value.resource.some
                 => can_lock(lock)
            /\ IF /\ pool.records[resolving].payload.value.resource.some
                  /\ lock = Poisoned
               THEN /\ panicked' = TRUE
                    /\ UNCHANGED <<pool, lock>>
               ELSE LET outcome == resolve_record(pool, resolving, graph,
                                                  resource)
                    IN  /\ pool' = outcome.animations
                        /\ panicked' = outcome.panicked
                        /\ lock' = IF outcome.panicked THEN Poisoned
                                   ELSE lock
       ELSE UNCHANGED <<pool, panicked, lock>>
    /\ resolving' = resolving + 1
    /\ last' = Op("resolve", resolving, 0)
    /\ UNCHANGED <<graph, blend, resource, threads, solo>>

\* The loop is over and resolve returns.
ContainerResolveEnd ==
    /\ ~panicked
    /\ resolving > Len(pool.records)
    /\ resolving' = 0
    /\ last' = Op("resolved", 0, 0)
    /\ UNCHANGED <<pool, graph, blend, resource, lock, threads, panicked, solo>>

ContainerResolveStep ==
    ContainerResolveStart \/ ContainerResolveNext \/ ContainerResolveEnd

\* Visit in read mode: the region entered, the check of the pool, then the
\* pool read from the visitor.
ContainerLoad ==
    /\ ~panicked
    /\ resolving = 0
    /\ \E visitor \in VisitorInputs :
        LET outcome == AnimationContainer_visit(pool, visitor)
        IN  /\ pool' = outcome.animations
            /\ panicked' = outcome.panicked
            /\ last' = Op("visit", [visitor |-> visitor, result |-> outcome.result], 0)
    /\ UNCHANGED <<graph, blend, resource, lock, threads, solo, resolving>>

(***************************************************************************)
(* Operations on the pose                                                  *)
(***************************************************************************)
PoseCloneInto ==
    /\ ~panicked
    /\ \E source \in PoseInputs :
        /\ blend' = clone_into(source, blend)
        /\ last' = Op("clone_into", source, 0)
    /\ UNCHANGED <<pool, graph, resource, lock, threads, panicked, solo, resolving>>

PoseReset ==
    /\ ~panicked
    /\ blend' = reset(blend)
    /\ last' = Op("reset", 0, 0)
    /\ UNCHANGED <<pool, graph, resource, lock, threads, panicked, solo, resolving>>

PoseBlendWith ==
    /\ ~panicked
    /\ ticks < MaxBlends
    /\ \E other \in PoseInputs, weight \in WeightInputs :
        /\ blend' = AnimationPose_blend_with(blend, other, weight)
        /\ last' = Op("blend_with", [other |-> other, weight |-> weight], 0)
    /\ ticks' = ticks + 1
    /\ UNCHANGED <<pool, graph, resource, lock, threads, panicked,
                   track, anim, result, crossings, popped, resolving>>

PoseApply ==
    /\ ~panicked
    /\ \E order \in IterationOrders(blend) :
        LET outcome == AnimationPose_apply(blend, graph, order)
        IN  /\ graph' = outcome.graph
            /\ panicked' = outcome.panicked
            /\ last' = Op("apply", outcome.reported, 0)
    /\ UNCHANGED <<pool, blend, resource, lock, threads, solo, resolving>>

(***************************************************************************)
(* Operations on an animation with a resource                              *)
(***************************************************************************)
\* The engine binds the animation to the shared resource.
AttachResource ==
    /\ ~panicked
    /\ ~anim.resource.some
    /\ anim' = [anim EXCEPT !.resource = Some(SharedResource)]
    /\ last' = Op("attach", 0, 0)
    /\ UNCHANGED <<track, result, crossings, popped, ticks, world>>

\* The resource is loaded again with other content, under its lock.
ReloadResource ==
    /\ ~panicked
    /\ lock = Unlocked
    /\ \E model \in ResourceInputs :
        /\ model # resource
        /\ resource' = model
    /\ last' = Op("reload", 0, 0)
    /\ UNCHANGED <<pool, graph, blend, lock, threads, panicked, solo, resolving>>

\* Animation::resolve, from taking the lock to dropping the guard.  An
\* animation without a resource returns before it takes the lock.  On a
\* poisoned mutex lock().unwrap() panics; a panic of graph.get under the
\* guard poisons the mutex.
Resolve ==
    /\ ~panicked
    /\ anim.resource.some => can_lock(lock)
    /\ IF anim.resource.some /\ lock = Poisoned
       THEN /\ panicked' = TRUE
            /\ UNCHANGED <<anim, lock>>
       ELSE LET outcome == resolve(anim, graph, resource)
            IN  /\ anim' = outcome.anim
                /\ panicked' = outcome.panicked
                /\ lock' = IF outcome.panicked THEN Poisoned ELSE lock
    /\ last' = Op("resolve", 0, 0)
    /\ UNCHANGED <<track, result, crossings, popped, ticks,
                   pool, graph, blend, resource, threads, resolving>>

(***************************************************************************)
(* Threads on the shared resource: resolve step by step, and a writer      *)
(***************************************************************************)
\* resource.lock().unwrap() of resolve (mod.rs:551): the thread gets the
\* mutex once no thread holds it; on a poisoned mutex unwrap panics and
\* the guard inside the error is dropped.
ResolveLock(r) ==
    /\ threads[r].pc = "start"
    /\ can_lock(lock)
    /\ IF lock = Poisoned
       THEN /\ lock' = lock
            /\ threads' = [threads EXCEPT ![r].pc = "panicked"]
       ELSE /\ lock' = r
            /\ threads' = [threads EXCEPT ![r].pc = "locked"]
    /\ last' = Op("lock", r, 0)
    /\ UNCHANGED <<pool, graph, blend, resource, panicked, solo, resolving>>

\* One turn of the loop over the tracks, reading the resource as it is now.
\* graph.get panics on the handle of a node that is not in the scene graph
\* (mod.rs:558): the guard is dropped while the thread unwinds, which
\* poisons the mutex.
ResolveTrack(r) ==
    /\ threads[r].pc = "locked"
    /\ threads[r].next <= Len(threads[r].anim.tracks)
    /\ LET i == threads[r].next
           ref_animation == at(resource.animations, 0).value
       IN  IF threads[r].anim.tracks[i].node \in DOMAIN graph
           THEN /\ threads' =
                     [threads EXCEPT
                        ![r].anim.tracks[i] =
                            resolve_track(@, graph, resource, ref_animation),
                        ![r].next = i + 1,
                        ![r].saw = @ \cup {resource}]
                /\ lock' = lock
           ELSE /\ threads' = [threads EXCEPT ![r].pc = "panicked"]
                /\ lock' = Poisoned
    /\ last' = Op("resolve_track", r, 0)
    /\ UNCHANGED <<pool, graph, blend, resource, panicked, solo, resolving>>

\* The guard is dropped when resolve returns.
ResolveUnlock(r) ==
    /\ threads[r].pc = "locked"
    /\ threads[r].next > Len(threads[r].anim.tracks)
    /\ lock' = IF lock = r THEN Unlocked ELSE lock
    /\ threads' = [threads EXCEPT ![r].pc = "done"]
    /\ last' = Op("unlock", r, 0)
    /\ UNCHANGED <<pool, graph, blend, resource, panicked, solo, resolving>>

\* The writer (a reload of the resource) takes the lock again and again,
\* the same way resolve does.
WriterLock ==
    /\ threads[Writer].pc = "start"
    /\ can_lock(lock)
    /\ IF lock = Poisoned
       THEN /\ lock' = lock
            /\ threads' = [threads EXCEPT ![Writer].pc = "panicked"]
       ELSE /\ lock' = Writer
            /\ threads' = [threads EXCEPT ![Writer].pc = "locked"]
    /\ last' = Op("lock", Writer, 0)
    /\ UNCHANGED <<pool, graph, blend, resource, panicked, solo, resolving>>

\* The writer replaces the resource by the other version in two writes.
WriterWriteFirst ==
    /\ threads[Writer].pc = "locked"
    /\ \E new \in Versions \ {resource} :
        resource' = PartlyWritten(resource, new)
    /\ threads' = [threads EXCEPT ![Writer].pc = "writing"]
    /\ last' = Op("write", 1, 0)
    /\ UNCHANGED <<pool, graph, blend, lock, panicked, solo, resolving>>

WriterWriteSecond ==
    /\ threads[Writer].pc = "writing"
    /\ \E new \in Versions :
        /\ resource = PartlyWritten(resource, new)
        /\ resource' = new
    /\ threads' = [threads EXCEPT ![Writer].pc = "written"]
    /\ last' = Op("write", 2, 0)
    /\ UNCHANGED <<pool, graph, blend, lock, panicked, solo, resolving>>

\* The writer drops the guard; writes counts its writes up to MaxWrites.
WriterUnlock ==
    /\ threads[Writer].pc = "written"
    /\ lock' = IF lock = Writer THEN Unlocked ELSE lock
    /\ threads' = [threads EXCEPT ![Writer].pc = "start",
                                  ![Writer].writes = Min({@ + 1, MaxWrites})]
    /\ last' = Op("unlock", Writer, 0)
    /\ UNCHANGED <<pool, graph, blend, resource, panicked, solo, resolving>>

ResolverStep(r) == ResolveLock(r) \/ ResolveTrack(r) \/ ResolveUnlock(r)

WriterStep ==
    WriterLock \/ WriterWriteFirst \/ WriterWriteSecond \/ WriterUnlock

(***************************************************************************)
(* Operations on the tracks of an animation                                *)
(***************************************************************************)
AddSkeletonTrack ==
    /\ Len(anim.tracks) < MaxTracks
    /\ \E t \in SkeletonTrackInputs :
        /\ anim' = add_track(anim, t)
        /\ last' = Op("add_track", t.max_time, anim.time_position)
    /\ UNCHANGED <<track, result, crossings, popped, ticks, world>>

SetTracksEnabledFrom ==
    /\ \E handle \in DOMAIN graph, enabled \in BOOLEAN :
        /\ anim' = set_tracks_enabled_from(anim, handle, enabled, graph)
        /\ last' = Op("set_tracks_enabled_from",
                      [handle |-> handle, enabled |-> enabled], anim.time_position)
    /\ UNCHANGED <<track, result, crossings, popped, ticks, world>>

SetNodeTrackEnabled ==
    /\ \E handle \in DOMAIN graph, enabled \in BOOLEAN :
        /\ anim' = set_node_track_enabled(anim, handle, enabled)
        /\ last' = Op("set_node_track_enabled",
                      [handle |-> handle, enabled |-> enabled], anim.time_position)
    /\ UNCHANGED <<track, result, crossings, popped, ticks, world>>

\* A tick of one time unit.
TickOnce ==
    /\ TickStep(1)
    /\ UNCHANGED ticks

(***************************************************************************)
(* Sampling a track between its frames                                     *)
(***************************************************************************)
AddSampleFrame ==
    /\ Len(track.frames) < MaxFrames
    /\ \E key_frame \in SampleFrameInputs :
        /\ track' = add_key_frame(track, key_frame)
        /\ last' = Op("add_key_frame", key_frame.time, track.max_time)
    /\ UNCHANGED <<anim, result, crossings, popped, ticks, world>>

SampleLocalPose ==
    /\ \E time \in SampleTimeInputs :
        /\ result' = get_local_pose(track, time)
        /\ last' = Op("sample", time, 0)
    /\ UNCHANGED <<track, anim, crossings, popped, ticks, world>>

(***************************************************************************)
(* Playback with a fixed time step                                         *)
(***************************************************************************)
\* update_animations with the dt of the update before: it ticks the
\* animation when it is enabled.
Playback ==
    LET dt == last.arg
        new == anim.time_position + dt * anim.speed
    IN  /\ anim.enabled
        /\ anim' = tick(anim, dt)
        /\ last' = [op |-> "tick", arg |-> dt, time |-> anim.time_position,
                    new |-> new, events |-> anim.events,
                    crossed |-> CrossedIds(anim.signals, anim.time_position, new)]
        /\ UNCHANGED <<track, result, crossings, popped, ticks, world>>

(***************************************************************************)
(* Playback in a loop, the event queue drained between the ticks           *)
(***************************************************************************)
\* A forward tick of less than one length, on an empty event queue.
LoopTick ==
    /\ anim.events = <<>>
    /\ \E dt \in 1..MaxDt :
        LET new == anim.time_position + dt * anim.speed
        IN  /\ dt * anim.speed < anim.length
            /\ anim' = tick(anim, dt)
            /\ last' = [op |-> "tick", arg |-> dt, time |-> anim.time_position,
                        new |-> new, events |-> anim.events,
                        crossed |-> CrossedIds(anim.signals, anim.time_position, new)]
    /\ UNCHANGED <<track, result, crossings, popped, ticks, world>>

\* pop_event on a queue that holds an event.
DrainEvent ==
    LET r == pop_event(anim)
    IN  /\ anim.events # <<>>
        /\ anim' = r.anim
        /\ result' = r.result
        /\ last' = [Op("pop_event", 0, anim.time_position)
                       EXCEPT !.events = anim.events]
        /\ UNCHANGED <<track, crossings, popped, ticks, world>>

(***************************************************************************)
(* Mutation of the tracks of an animation through get_tracks_mut           *)
(***************************************************************************)
AddResolveTrack ==
    /\ ~panicked
    /\ Len(anim.tracks) < MaxTracks
    /\ \E t \in ResolveTrackInputs :
        /\ anim' = add_track(anim, t)
        /\ last' = Op("add_track", t.max_time, anim.time_position)
    /\ UNCHANGED <<track, result, crossings, popped, ticks, world>>

\* get_tracks_mut()[i].add_key_frame(key_frame); ticks counts the writes.
TrackAddKeyFrame ==
    /\ ~panicked
    /\ ticks < MaxWrites
    /\ \E i \in 1..Len(anim.tracks),
          key_frame \in {k \in KeyFrameInputs : k.position = 0} :
        /\ Len(anim.tracks[i].frames) < MaxFrames
        /\ anim' = [anim EXCEPT !.tracks[i] = add_key_frame(@, key_frame)]
        /\ last' = Op("add_key_frame", key_frame.time, anim.time_position)
    /\ ticks' = ticks + 1
    /\ UNCHANGED <<track, result, crossings, popped, world>>

\* get_tracks_mut()[i].set_key_frames(key_frames).
TrackSetKeyFrames ==
    /\ ~panicked
    /\ ticks < MaxWrites
    /\ \E i \in 1..Len(anim.tracks), key_frames \in KeyFrameSetInputs :
        /\ anim' = [anim EXCEPT !.tracks[i] = set_key_frames(@, key_frames)]
        /\ last' = Op("set_key_frames", Len(key_frames), anim.time_position)
    /\ ticks' = ticks + 1
    /\ UNCHANGED <<track, result, crossings, popped, world>>

(***************************************************************************)
(* Signals with their enabled flag set or cleared                          *)
(***************************************************************************)
AddFlaggedSignal ==
    /\ Len(anim.signals) < MaxSignals
    /\ \E signal \in FlaggedSignalInputs :
        /\ anim' = add_signal(anim, signal)
        /\ last' = Op("add_signal", signal.id, anim.time_position)
    /\ UNCHANGED <<track, result, crossings, popped, ticks, world>>

PopEvent ==
    LET r == pop_event(anim)
    IN  /\ anim' = r.anim
        /\ result' = r.result
        /\ popped' = IF r.result.some
                     THEN Append(popped, r.result.value.signal_id)
                     ELSE popped
        /\ last' = [Op("pop_event", 0, anim.time_position)
                       EXCEPT !.events = anim.events]
        /\ UNCHANGED <<track, crossings, ticks, world>>

Init ==
    /\ track = TrackDefault
    /\ anim = AnimationDefault
    /\ result = None
    /\ last = NoOp
    /\ crossings = <<>>
    /\ popped = <<>>
    /\ ticks = 0
    /\ WorldInit

\* A track filled by add_key_frame alone.
NextKeys == AddKeyFrame \/ GetLocalPose

SpecKeys == Init /\ [][NextKeys]_vars

\* A track filled by add_key_frame and set_key_frames.
NextTrack == AddKeyFrame \/ SetKeyFrames \/ GetLocalPose

SpecTrack == Init /\ [][NextTrack]_vars

\* The timeline of an animation without signals.
NextAnim == AddTrack \/ SetTimePosition \/ Rewind \/ SetLoop \/ SetSpeed \/ Tick

SpecAnim == Init /\ [][NextAnim]_vars

\* An animation of length 4, looped or not, that receives signals and is
\* ticked a few times in either direction.
InitSignal ==
    /\ track = TrackDefault
    /\ \E looped \in BOOLEAN :
        anim = set_loop(add_track(AnimationDefault, TimelineTrack(4)), looped)
    /\ result = None
    /\ last = NoOp
    /\ crossings = <<>>
    /\ popped = <<>>
    /\ ticks = 0
    /\ WorldInit

NextSignal == AddSignal \/ SetSpeed \/ TickCounted \/ PopEvent

SpecSignal == InitSignal /\ [][NextSignal]_vars

\* A looped animation of length 4 whose three signals share time 2, ticked
\* forward until the queue overflows.
OverflowAnimation ==
    add_signal(
        add_signal(
            add_signal(add_track(AnimationDefault, TimelineTrack(4)),
                       AnimationSignal(1, 2)),
            AnimationSignal(2, 2)),
        AnimationSignal(3, 2))

InitOverflow ==
    /\ track = TrackDefault
    /\ anim = OverflowAnimation
    /\ result = None
    /\ last = NoOp
    /\ crossings = <<>>
    /\ popped = <<>>
    /\ ticks = 0
    /\ WorldInit

NextOverflow == TickForward \/ PopEvent

SpecOverflow == InitOverflow /\ [][NextOverflow]_vars

\* A container of animations: added, removed, updated, loaded.
NextContainer ==
    \/ ContainerAdd
    \/ ContainerRemove
    \/ ContainerClear
    \/ ContainerRetain
    \/ ContainerResolveStart
    \/ ContainerResolveNext
    \/ ContainerResolveEnd
    \/ UpdateAnimations
    \/ ContainerLoad

SpecContainer == Init /\ [][NextContainer]_vars

\* A container whose animations are driven by state actions between updates.
InitStateAction ==
    /\ track = TrackDefault
    /\ anim = AnimationDefault
    /\ result = None
    /\ last = NoOp
    /\ crossings = <<>>
    /\ popped = <<>>
    /\ ticks = 0
    /\ pool \in StateActionContainers
    /\ graph = <<>>
    /\ blend = PoseDefault
    /\ resource = None
    /\ lock = Unlocked
    /\ threads = <<>>
    /\ resolving = 0
    /\ panicked = FALSE

NextStateAction == UpdateAnimations \/ ApplyStateAction

SpecStateAction == InitStateAction /\ [][NextStateAction]_vars

\* A pose that is copied from other poses, reset, and blended with others.
NextPose == PoseCloneInto \/ PoseReset \/ PoseBlendWith

SpecPose == Init /\ [][NextPose]_vars

\* A pose that is copied from other poses and applied to a scene of two
\* nodes.
InitApply ==
    /\ track = TrackDefault
    /\ anim = AnimationDefault
    /\ result = None
    /\ last = NoOp
    /\ crossings = <<>>
    /\ popped = <<>>
    /\ ticks = 0
    /\ pool = ContainerNew
    /\ graph = GraphInput
    /\ blend = PoseDefault
    /\ resource = None
    /\ lock = Unlocked
    /\ threads = <<>>
    /\ resolving = 0
    /\ panicked = FALSE

NextApply == PoseCloneInto \/ PoseApply

SpecApply == InitApply /\ [][NextApply]_vars

\* An animation loaded without its key frames, bound to the resource and
\* resolved against resources of different content.
InitResolve ==
    /\ track = TrackDefault
    /\ anim \in ResolveAnimationInputs
    /\ result = None
    /\ last = NoOp
    /\ crossings = <<>>
    /\ popped = <<>>
    /\ ticks = 0
    /\ pool = ContainerNew
    /\ graph = GraphInput
    /\ blend = PoseDefault
    /\ resource \in ResourceInputs
    /\ lock = Unlocked
    /\ threads = <<>>
    /\ resolving = 0
    /\ panicked = FALSE

NextResolve == AttachResource \/ ReloadResource \/ Resolve

SpecResolve == InitResolve /\ [][NextResolve]_vars

\* Several threads resolve their animation from the shared resource while a
\* writer replaces its content.
InitShared ==
    /\ track = TrackDefault
    /\ anim = AnimationDefault
    /\ result = None
    /\ last = NoOp
    /\ crossings = <<>>
    /\ popped = <<>>
    /\ ticks = 0
    /\ pool = ContainerNew
    /\ graph = GraphInput
    /\ blend = PoseDefault
    /\ resource = VersionA
    /\ lock = Unlocked
    /\ \E input \in [Resolvers -> SharedAnimationInputs] :
        threads = [t \in Resolvers \cup {Writer} |->
                      Thread("start", IF t \in Resolvers THEN input[t]
                                      ELSE SharedAnimation)]
    /\ resolving = 0
    /\ panicked = FALSE

NextShared == (\E r \in Resolvers : ResolverStep(r)) \/ WriterStep

\* Every thread that can take a step eventually takes one: the scheduler
\* runs every runnable thread, and a thread blocked in Mutex::lock is woken
\* when the mutex stays free.
SpecShared ==
    /\ InitShared
    /\ [][NextShared]_vars
    /\ \A r \in Resolvers : WF_vars(ResolverStep(r))
    /\ WF_vars(WriterStep)

\* A container of two animations on the shared resource, resolved while a
\* writer replaces the content of the resource.
InitContainerShared ==
    /\ track = TrackDefault
    /\ anim = AnimationDefault
    /\ result = None
    /\ last = NoOp
    /\ crossings = <<>>
    /\ popped = <<>>
    /\ ticks = 0
    /\ pool = add(add(ContainerNew, SharedAnimation), SharedAnimation)
    /\ graph = GraphInput
    /\ blend = PoseDefault
    /\ resource = VersionA
    /\ lock = Unlocked
    /\ threads = [t \in Resolvers \cup {Writer} |-> Thread("start", SharedAnimation)]
    /\ resolving = 0
    /\ panicked = FALSE

NextContainerShared == ContainerResolveStep \/ WriterStep

SpecContainerShared == InitContainerShared /\ [][NextContainerShared]_vars

\* An animation of a skeleton whose tracks are enabled and disabled
\* between ticks.
InitSkeleton ==
    /\ track = TrackDefault
    /\ anim = AnimationDefault
    /\ result = None
    /\ last = NoOp
    /\ crossings = <<>>
    /\ popped = <<>>
    /\ ticks = 0
    /\ pool = ContainerNew
    /\ graph = SkeletonGraph
    /\ blend = PoseDefault
    /\ resource = None
    /\ lock = Unlocked
    /\ threads = <<>>
    /\ resolving = 0
    /\ panicked = FALSE

NextSkeleton ==
    AddSkeletonTrack \/ SetTracksEnabledFrom \/ SetNodeTrackEnabled \/ TickOnce

SpecSkeleton == InitSkeleton /\ [][NextSkeleton]_vars

\* A track with key frames on both sides of time 0, sampled.
NextSample == AddSampleFrame \/ SampleLocalPose

SpecSample == Init /\ [][NextSample]_vars

\* A one-shot animation updated again and again with one positive dt.
InitPlayback ==
    /\ track = TrackDefault
    /\ anim \in PlaybackAnimations
    /\ result = None
    /\ \E dt \in 1..MaxDt : last = [NoOp EXCEPT !.arg = dt]
    /\ crossings = <<>>
    /\ popped = <<>>
    /\ ticks = 0
    /\ WorldInit

\* The application calls update_animations once per frame, forever.
SpecPlayback == InitPlayback /\ [][Playback]_vars /\ WF_vars(Playback)

\* A looped animation ticked forward, its events consumed after each tick.
InitLoop ==
    /\ track = TrackDefault
    /\ anim \in LoopAnimations
    /\ result = None
    /\ last = NoOp
    /\ crossings = <<>>
    /\ popped = <<>>
    /\ ticks = 0
    /\ WorldInit

NextLoop == LoopTick \/ DrainEvent

SpecLoop == InitLoop /\ [][NextLoop]_vars

\* An animation built by add_track, its tracks written through
\* get_tracks_mut and resolved from a resource.
InitLength ==
    /\ track = TrackDefault
    /\ anim = AnimationDefault
    /\ result = None
    /\ last = NoOp
    /\ crossings = <<>>
    /\ popped = <<>>
    /\ ticks = 0
    /\ pool = ContainerNew
    /\ graph = GraphInput
    /\ blend = PoseDefault
    /\ resource \in ResourceInputs
    /\ lock = Unlocked
    /\ threads = <<>>
    /\ resolving = 0
    /\ panicked = FALSE

NextLength ==
    \/ AddResolveTrack
    \/ TrackAddKeyFrame
    \/ TrackSetKeyFrames
    \/ AttachResource
    \/ Resolve

SpecLength == InitLength /\ [][NextLength]_vars

\* An animation with enabled and disabled signals, a few ticks in either
\* direction.
NextFlagged == AddFlaggedSignal \/ TickCounted \/ PopEvent

SpecFlagged == InitSignal /\ [][NextFlagged]_vars

(***************************************************************************)
(* Properties of tracks                                                    *)
(***************************************************************************)
Sorted(frames) ==
    \A i \in 1..(Len(frames) - 1) : frames[i].time <= frames[i + 1].time

FrameTimes(frames) == {frames[i].time : i \in 1..Len(frames)}

\* C5: after any sequence of add_key_frame calls on a track that starts
\* empty, the frames are in non-decreasing time order.
C5_FramesSorted == Sorted(track.frames)

\* C6 (as stated): max_time is the maximum time over the frames, or 0 when
\* the track has no frames.
C6_MaxTimeIsMaxOfFrames ==
    track.max_time =
        IF track.frames = <<>> THEN 0 ELSE Max(FrameTimes(track.frames))

\* C6 (amended): max_time is the maximum over 0 and the times of the frames.
C6_MaxTimeIsMaxOfFramesAndZero ==
    track.max_time = Max(FrameTimes(track.frames) \cup {0})

\* A bulk replace has lowered max_time to the maximum of the new frames.
C6_Witness ==
    /\ last.op = "set_key_frames"
    /\ Len(track.frames) >= 2
    /\ track.max_time > 0
    /\ track.max_time < last.time

FirstPose == Some(PoseOfKeyFrame(track.node, track.frames[1]))

LastPose == Some(PoseOfKeyFrame(track.node, track.frames[Len(track.frames)]))

\* C7 (as stated): get_local_pose returns nothing for an empty track; for
\* frames in time order it returns the last frame verbatim for every time
\* >= max_time and the first frame verbatim for every time at or below the
\* first frame's time.
C7_BoundarySampling ==
    last.op = "get_local_pose" =>
        /\ track.frames = <<>> => result = None
        /\ (track.frames # <<>> /\ Sorted(track.frames)) =>
            /\ last.arg >= track.max_time => result = LastPose
            /\ last.arg <= track.frames[1].time => result = FirstPose

\* C7 (amended): as C7, the first frame being returned for every time below
\* max_time that is at or below the first frame's time, when that time is
\* not negative.
C7_BoundarySamplingBelowMax ==
    last.op = "get_local_pose" =>
        /\ track.frames = <<>> => result = None
        /\ (track.frames # <<>> /\ Sorted(track.frames)) =>
            /\ last.arg >= track.max_time => result = LastPose
            /\ (/\ last.arg < track.max_time
                /\ last.arg <= track.frames[1].time
                /\ track.frames[1].time >= 0) => result = FirstPose

\* A negative time was sampled on a sorted track of three frames whose first
\* and last transforms differ, and the first frame came back.
C7_Witness ==
    /\ last.op = "get_local_pose"
    /\ Len(track.frames) = 3
    /\ Sorted(track.frames)
    /\ last.arg < 0
    /\ track.frames[1].time = 0
    /\ result = FirstPose
    /\ FirstPose # LastPose

(***************************************************************************)
(* Properties of the timeline                                              *)
(***************************************************************************)
\* An animation of the given length, standing at the given time.
AnimationAt(length, looped, time) ==
    set_time_position(
        set_loop(add_track(AnimationDefault, TrackOf(1, <<0, length>>)), looped),
        time)

\* C1 (as stated): 0 <= time_position <= length when the animation is not
\* looped, and 0 <= time_position < length when it is looped.
C1_TimeInRange ==
    /\ ~anim.looped => (0 <= anim.time_position /\ anim.time_position <= anim.length)
    /\ anim.looped => (0 <= anim.time_position /\ anim.time_position < anim.length)

\* C1 (amended): 0 <= time_position <= length in every state, looped or not.
C1_TimeWithinLength ==
    0 <= anim.time_position /\ anim.time_position <= anim.length

\* A backward tick of a non-looped animation ran below 0 and was clamped.
C1_Witness ==
    /\ last.op = "tick"
    /\ ~anim.looped
    /\ anim.length > 0
    /\ last.time > 0
    /\ last.new < 0
    /\ anim.time_position = 0

\* C8: the tick of a looped animation of length > 0 whose new time exceeds
\* length commits the new time wrapped into the timeline (length 10, from 9
\* by dt 2 at speed 1 gives 1), never the new time itself and never a value
\* greater than length.
C8_LoopedTickWraps ==
    /\ (last.op = "tick" /\ anim.looped /\ anim.length > 0
            /\ last.new > anim.length) =>
        /\ anim.time_position = last.new % anim.length
        /\ anim.time_position # last.new
        /\ anim.time_position <= anim.length
    /\ tick(AnimationAt(10, TRUE, 9), 2).time_position = 1

\* A tick of a looped animation went past the end and landed inside.
C8_Witness ==
    /\ last.op = "tick"
    /\ anim.looped
    /\ anim.length = 4
    /\ last.time = 3
    /\ last.new = 5
    /\ anim.time_position = 1

\* C9: the tick of a non-looped animation whose new time is >= length commits
\* time_position = length and has_ended() is then true; has_ended() is true
\* exactly when the animation is not looped and time_position = length.
C9_TickClampsAtEnd ==
    /\ (last.op = "tick" /\ ~anim.looped /\ last.new >= anim.length) =>
        (anim.time_position = anim.length /\ has_ended(anim))
    /\ has_ended(anim) <=> (~anim.looped /\ anim.time_position = anim.length)
    /\ tick(AnimationAt(10, FALSE, 9), 5).time_position = 10
    /\ has_ended(tick(AnimationAt(10, FALSE, 9), 5))

\* A tick of a non-looped animation overshot the end and stopped on it.
C9_Witness ==
    /\ last.op = "tick"
    /\ ~anim.looped
    /\ anim.length = 4
    /\ last.time = 3
    /\ last.new > 4
    /\ has_ended(anim)

TrackMaxTimes(tracks) == {tracks[i].max_time : i \in 1..Len(tracks)}

\* C10: length is the maximum max_time over the tracks added so far (0 when
\* there are none), whatever the order in which they were added.
C10_LengthIsMaxOfTracks ==
    /\ anim.length = Max(TrackMaxTimes(anim.tracks) \cup {0})
    /\ add_track(add_track(add_track(AnimationDefault, TrackOf(1, <<3>>)),
                           TrackOf(2, <<7>>)),
                 TrackOf(3, <<2>>)).length = 7

\* The longer track was added first, the shorter one after it.
C10_Witness ==
    /\ last.op = "add_track"
    /\ Len(anim.tracks) = 2
    /\ anim.tracks[1].max_time = 4
    /\ anim.tracks[2].max_time = 2
    /\ anim.length = 4

(***************************************************************************)
(* Properties of signals and the event queue                               *)
(***************************************************************************)
EventsOf(ids) == [i \in 1..Len(ids) |-> AnimationEvent(ids[i])]

\* The animation stands where the given time lands on its timeline: the
\* same point of the cycle when looped, the nearest point of [0, length]
\* when not.
StandsAt(a, time) ==
    /\ 0 <= a.time_position
    /\ a.time_position <= a.length
    /\ IF a.looped
       THEN a.length > 0 => (a.time_position - time) % a.length = 0
       ELSE a.time_position =
                (IF time < 0 THEN 0 ELSE IF time > a.length THEN a.length ELSE time)

\* C2: the queue never holds more than 32 events; a tick that crosses
\* signals while the queue holds 32 events drops the new events, leaves the
\* queued events unchanged and still advances time_position.
C2_QueueBounded ==
    /\ Len(anim.events) <= 32
    /\ (last.op = "tick" /\ Len(last.events) = 32) =>
        /\ anim.events = last.events
        /\ StandsAt(anim, last.new)

\* A tick crossed the three signals with 32 events queued and moved on.
C2_Witness ==
    /\ last.op = "tick"
    /\ Len(last.events) = 32
    /\ Len(last.crossed) = 3
    /\ anim.events = last.events
    /\ anim.time_position # last.time

\* C3: pop_event returns the oldest queued event; when more than 32
\* crossings happened before the first pop, the queue holds exactly the 32
\* earliest crossings in generation order; a pop from the empty queue
\* returns nothing.
C3_FifoOldestFirst ==
    /\ (popped = <<>> /\ Len(crossings) > 32) =>
        anim.events = EventsOf(SubSeq(crossings, 1, 32))
    /\ (last.op = "pop_event" /\ last.events # <<>>) =>
        /\ result = Some(Head(last.events))
        /\ anim.events = Tail(last.events)
        /\ EventsOf(popped) \o anim.events
             = EventsOf(SubSeq(popped, 1, Len(popped) - 1)) \o last.events
    /\ (last.op = "pop_event" /\ last.events = <<>>) =>
        (result = None /\ anim.events = <<>>)

\* After more than 32 crossings, 32 pops returned the 32 earliest crossings
\* in order and the next pop returned nothing.
C3_Witness ==
    /\ last.op = "pop_event"
    /\ last.events = <<>>
    /\ result = None
    /\ Len(crossings) > 32
    /\ popped = SubSeq(crossings, 1, 32)

\* The signals of the animation whose time t satisfies from < t <= to.
SignalsWithin(a, from, to) ==
    {i \in 1..Len(a.signals) : from < a.signals[i].time /\ a.signals[i].time <= to}

\* The events a tick appended to the queue it found.
Appended == SubSeq(anim.events, Len(last.events) + 1, Len(anim.events))

\* C4: with room in the queue, a tick enqueues exactly one event with a
\* signal's id iff time_position < signal.time <= time_position + dt*speed,
\* taken on the time before the tick commits; a tick that starts at or past
\* the signal's time, or that does not move forward, enqueues none for it.
C4_SignalCrossing ==
    (last.op = "tick" /\ Len(last.events) + Len(anim.signals) <= 32) =>
        LET hit == SignalsWithin(anim, last.time, last.time + last.arg * anim.speed)
        IN  /\ SubSeq(anim.events, 1, Len(last.events)) = last.events
            /\ Len(Appended) = Cardinality(hit)
            /\ \A i \in 1..Len(anim.signals) :
                   Cardinality({j \in 1..Len(Appended) :
                                   Appended[j].signal_id = anim.signals[i].id})
                   = Cardinality({k \in hit : anim.signals[k].id = anim.signals[i].id})
            /\ (last.arg * anim.speed <= 0) => Appended = <<>>
            /\ \A i \in 1..Len(anim.signals) :
                   (last.time >= anim.signals[i].time) => i \notin hit

\* The signal at time 3 gave one event when a tick crossed it, and none in
\* the forward tick that started past it.
C4_Witness ==
    /\ last.op = "tick"
    /\ anim.signals = <<AnimationSignal(2, 3)>>
    /\ last.time > 3
    /\ last.new > last.time
    /\ Appended = <<>>
    /\ anim.events = <<AnimationEvent(2)>>
    /\ crossings = <<2>>
    /\ popped = <<>>

(***************************************************************************)
(* Properties of the container and of state actions                        *)
(***************************************************************************)
Payloads(p) == {i \in 1..Len(p.records) : p.records[i].payload.some}

AnimationOf(p, i) == p.records[i].payload.value

\* C11: update_animations(dt) ticks every animation whose enabled flag is
\* set and leaves every disabled animation as it was: time position,
\* event queue and pose cache included.
C11_UpdateTicksEnabledOnly ==
    [][last'.op = "update_animations" =>
        /\ Len(pool'.records) = Len(pool.records)
        /\ pool'.free_stack = pool.free_stack
        /\ \A i \in 1..Len(pool.records) :
            IF i \in Payloads(pool) /\ AnimationOf(pool, i).enabled
            THEN pool'.records[i] =
                    [pool.records[i] EXCEPT
                        !.payload = Some(tick(AnimationOf(pool, i), last'.arg))]
            ELSE pool'.records[i] = pool.records[i]]_vars

\* An update has just run over a disabled animation that stands inside its
\* timeline with a queued event and a cached pose, and over an enabled one
\* that has moved.
C11_Witness ==
    /\ last.op = "update_animations"
    /\ \E i \in Payloads(pool) :
        /\ ~AnimationOf(pool, i).enabled
        /\ AnimationOf(pool, i).time_position = 1
        /\ AnimationOf(pool, i).events # <<>>
        /\ AnimationOf(pool, i).pose # PoseDefault
    /\ \E i \in Payloads(pool) :
        /\ AnimationOf(pool, i).enabled
        /\ AnimationOf(pool, i).time_position > 0

\* C16: loading (Visit in read mode, from a visitor that holds the region
\* of the container) a container that holds at least one animation always
\* ends in the panic, and loading a container that holds no animation
\* never does, also when its animations were all removed with remove or
\* clear before.
C16_LoadFatalIffNonEmpty ==
    [][(last'.op = "visit" /\ last'.arg.visitor.region) =>
          (panicked' <=> alive(pool) # {})]_vars

\* C17: StateAction.apply with RewindAnimation, EnableAnimation or
\* DisableAnimation on a handle that is not live in the container changes
\* nothing and raises no error; StateAction::None changes nothing.
C17_DeadHandleNoOp ==
    [][last'.op = "apply" =>
        LET action == last'.arg
        IN  (\/ action.kind = "None"
             \/ /\ action.kind \in {"RewindAnimation", "EnableAnimation",
                                     "DisableAnimation"}
                /\ ~is_valid_handle(pool, action.animation))
            => pool' = pool /\ ~panicked']_vars

\* EnableAnimation has just been applied with the handle of a removed
\* animation whose record holds another animation by now: that animation is
\* still disabled.
C17_Witness ==
    /\ last.op = "apply"
    /\ last.arg.kind = "EnableAnimation"
    /\ ~is_valid_handle(pool, last.arg.animation)
    /\ last.arg.animation.index \in Payloads(pool)
    /\ ~AnimationOf(pool, last.arg.animation.index).enabled
    /\ ~panicked

\* C18: StateAction.apply with a handle h that is live changes only the
\* animation of h and only the field of the action.  RewindAnimation sets
\* time_position to 0 and leaves enabled, speed, the loop flag and the
\* events, so an ended one-shot animation of positive length is no longer
\* ended; EnableAnimation and DisableAnimation set enabled and leave
\* time_position.  Every other animation is unchanged.
C18_LiveHandleOneField ==
    [][last'.op = "apply" =>
        LET action == last'.arg
        IN  (/\ action.kind \in {"RewindAnimation", "EnableAnimation",
                                  "DisableAnimation"}
             /\ is_valid_handle(pool, action.animation))
            =>
            LET h == action.animation
                a == borrow(pool, h)
            IN  /\ action.kind = "RewindAnimation" =>
                    /\ pool' = borrowed_mut(pool, h, [a EXCEPT !.time_position = 0])
                    /\ (~a.looped /\ a.length > 0) => ~has_ended(borrow(pool', h))
                /\ action.kind = "EnableAnimation" =>
                    pool' = borrowed_mut(pool, h, [a EXCEPT !.enabled = TRUE])
                /\ action.kind = "DisableAnimation" =>
                    pool' = borrowed_mut(pool, h, [a EXCEPT !.enabled = FALSE])]_vars

\* RewindAnimation has just been applied to a live, disabled one-shot
\* animation that had crossed its signal: it stands at 0, not ended, still
\* disabled, its event still queued, while another animation stands where
\* the updates took it.
C18_Witness ==
    /\ last.op = "apply"
    /\ last.arg.kind = "RewindAnimation"
    /\ is_valid_handle(pool, last.arg.animation)
    /\ LET a == borrow(pool, last.arg.animation)
       IN  /\ ~a.looped /\ a.length > 0
           /\ a.time_position = 0
           /\ ~has_ended(a)
           /\ ~a.enabled
           /\ a.events # <<>>
    /\ \E i \in Payloads(pool) :
        /\ i # last.arg.animation.index
        /\ AnimationOf(pool, i).time_position > 0

\* C19: EnableRandomAnimation(list) changes nothing when the list is empty.
\* Otherwise one handle of the list is picked and its animation, if live,
\* is enabled: at most one animation differs afterwards, it belongs to a
\* handle of the list and is enabled, and no animation is disabled or
\* rewound.
C19_RandomEnablesOne ==
    [][(last'.op = "apply" /\ last'.arg.kind = "EnableRandomAnimation") =>
        LET list == last'.arg.animation_handles
        IN  IF list = <<>> THEN pool' = pool
            ELSE \E k \in 1..Len(list) :
                    IF is_valid_handle(pool, list[k])
                    THEN pool' = borrowed_mut(pool, list[k],
                                    [borrow(pool, list[k]) EXCEPT !.enabled = TRUE])
                    ELSE pool' = pool]_vars

\* EnableRandomAnimation has just been applied with a list of two live
\* handles: the second one was picked, its animation is enabled and stands
\* where it stood, and the animation of the first one is still disabled.
C19_Witness ==
    /\ last.op = "apply"
    /\ last.arg.kind = "EnableRandomAnimation"
    /\ Len(last.arg.animation_handles) = 2
    /\ \A k \in 1..2 : is_valid_handle(pool, last.arg.animation_handles[k])
    /\ ~borrow(pool, last.arg.animation_handles[1]).enabled
    /\ borrow(pool, last.arg.animation_handles[2]).enabled
    /\ borrow(pool, last.arg.animation_handles[2]).time_position > 0

(***************************************************************************)
(* Properties of poses                                                     *)
(***************************************************************************)
\* C12: AnimationPose.blend_with(other, weight) blends in place, with
\* LocalPose.blend_with, every target present on both sides; adds the
\* weighted_clone(weight) of the entry of other for every target missing
\* from self; leaves the entries only self has as they were; the targets
\* afterwards are the union of both sides.
C12_BlendAsymmetry ==
    [][last'.op = "blend_with" =>
        LET other == last'.arg.other
            weight == last'.arg.weight
        IN  /\ DOMAIN blend' = DOMAIN blend \cup DOMAIN other
            /\ \A n \in DOMAIN blend \ DOMAIN other : blend'[n] = blend[n]
            /\ \A n \in DOMAIN blend \cap DOMAIN other :
                blend'[n] = LocalPose_blend_with(blend[n], other[n], weight)
            /\ \A n \in DOMAIN other \ DOMAIN blend :
                /\ blend'[n] = weighted_clone(other[n], weight)
                /\ blend'[n].position = RatMul(other[n].position, weight)]_vars

\* A blend of weight 1/2 has just given self a new entry for node 1 at half
\* the position 2 the other pose has (every pose handed in has positions of
\* at least 1, so an entry at 1 after a blend was not there before), next
\* to an entry only self has and an entry that was blended in place (its
\* scale is not the unit scale of a clone).
C12_Witness ==
    /\ last.op = "blend_with"
    /\ last.arg.weight = Rat(1, 2)
    /\ 1 \in DOMAIN last.arg.other
    /\ last.arg.other[1].position = Rat(2, 1)
    /\ 1 \in DOMAIN blend
    /\ blend[1].position = Rat(1, 1)
    /\ \E n \in DOMAIN blend : n \notin DOMAIN last.arg.other
    /\ \E n \in DOMAIN blend \cap DOMAIN last.arg.other :
        blend[n].scale # Vec3Unit

\* C13: LocalPose.blend_with leaves the scale of self as it was, whatever
\* the other pose and the weight; weighted_clone(weight) has the unit scale
\* whatever the scale of its source.
C13_ScaleNotBlended ==
    [][last'.op = "blend_with" =>
        /\ \A n \in DOMAIN blend \cap DOMAIN last'.arg.other :
            blend'[n].scale = blend[n].scale
        /\ \A n \in DOMAIN last'.arg.other \ DOMAIN blend :
            blend'[n].scale = Vec3Unit]_vars

\* A blend has just left an entry with a scale that is neither the unit
\* scale nor the scale of the other pose (it was blended in place), and an
\* entry of unit scale whose source has another scale (a weighted clone).
C13_Witness ==
    /\ last.op = "blend_with"
    /\ \E n \in DOMAIN blend \cap DOMAIN last.arg.other :
        /\ blend[n].scale # Vec3Unit
        /\ blend[n].scale # last.arg.other[n].scale
    /\ \E n \in DOMAIN blend \cap DOMAIN last.arg.other :
        /\ blend[n].scale = Vec3Unit
        /\ last.arg.other[n].scale # Vec3Unit

(***************************************************************************)
(* Properties of resolve                                                   *)
(***************************************************************************)
\* Positions of the reference tracks whose node, in the graph of the
\* resource, has the name.
NameMatches(name, model, ref_tracks) ==
    {k \in 1..Len(ref_tracks) : model.graph[ref_tracks[k].node].name = name}

\* C14: resolve matches tracks by the name of their node, not by handle.
\* A track whose node has the name of the node of a track of the first
\* animation of the resource receives a copy of the key frames of the first
\* such reference track; a track without a match (also one whose node is
\* not in the scene graph) keeps its key frames; the tracks after it are
\* still processed.
C14_ResolveByName ==
    [][last'.op = "resolve" =>
        IF anim.resource.some /\ at(resource.animations, 0).some
        THEN LET ref_tracks == at(resource.animations, 0).value.tracks
             IN  /\ Len(anim'.tracks) = Len(anim.tracks)
                 /\ \A i \in 1..Len(anim.tracks) :
                        LET t == anim.tracks[i]
                            matches == IF t.node \in DOMAIN graph
                                       THEN NameMatches(graph[t.node].name,
                                                        resource, ref_tracks)
                                       ELSE {}
                        IN  IF matches = {}
                            THEN anim'.tracks[i] = t
                            ELSE /\ anim'.tracks[i].frames =
                                        ref_tracks[Min(matches)].frames
                                 /\ anim'.tracks[i].node = t.node
                                 /\ anim'.tracks[i].node # ref_tracks[Min(matches)].node
        ELSE anim' = anim]_vars

\* resolve has just run against the resource with two Hand tracks and no
\* Head track: the Head track, first in the animation, still has its own
\* key frames, and the Hand track after it has the single key frame of the
\* first Hand track of the resource, whose handle is another one.
C14_Witness ==
    /\ last.op = "resolve"
    /\ ~panicked
    /\ anim.resource.some
    /\ at(resource.animations, 0).some
    /\ at(resource.animations, 0).value.tracks =
            <<TrackOf(6, <<1>>), TrackOf(7, <<0, 2>>)>>
    /\ Len(anim.tracks) = 2
    /\ anim.tracks[1] = TrackOf(2, <<0, 3>>)
    /\ anim.tracks[2].node = 1
    /\ anim.tracks[2].frames = TrackOf(6, <<1>>).frames

\* What a resolver has read so far comes from one completely written
\* version of the resource, it reads only while it holds the lock, and the
\* animation of a finished resolve is the one resolved from that version.
ReadsOneVersion(r) ==
    /\ threads[r].saw \subseteq Versions
    /\ Cardinality(threads[r].saw) <= 1
    /\ threads[r].pc = "locked" => lock = r
    /\ threads[r].pc = "done" =>
        \E v \in threads[r].saw :
            threads[r].anim = resolve(threads[r].input, graph, v).anim

\* C15: resolve reads the shared resource only while it holds the lock of
\* the resource and releases it on return.  In every interleaving of the
\* resolve calls with a writer that takes the same lock, each resolve
\* copies from one consistent version of the resource, and every resolve
\* eventually acquires the lock and completes.
C15_ConsistentAndComplete ==
    /\ [](\A r \in Resolvers : ReadsOneVersion(r))
    /\ \A r \in Resolvers : <>(threads[r].pc = "done" /\ lock # r)

\* Every resolve has completed, two of them between different writes: one
\* copied from the first version of the resource, one from the second.
C15_Witness ==
    /\ \A r \in Resolvers : threads[r].pc = "done"
    /\ threads[Writer].writes > 0
    /\ \E r \in Resolvers : threads[r].saw = {VersionA}
    /\ \E r \in Resolvers : threads[r].saw = {VersionB}
    /\ \E r \in Resolvers :
        threads[r].anim.tracks[2].frames = TrackOf(7, <<2>>).frames

(***************************************************************************)
(* Properties of applying a pose                                           *)
(***************************************************************************)
\* C20: AnimationPose.apply(graph) writes the position, rotation and scale
\* of every entry with a valid target into the local transform of that
\* node; an entry whose target is an invalid or empty handle is only
\* reported and skipped, and every other entry is still applied: a bad
\* entry never aborts the call.
C20_ApplySkipsBadEntries ==
    [][last'.op = "apply" =>
        /\ ~panicked'
        /\ DOMAIN graph' = DOMAIN graph
        /\ \A n \in DOMAIN graph :
            IF n \in DOMAIN blend
            THEN graph'[n] = set_transform(graph[n], blend[n])
            ELSE graph'[n] = graph[n]]_vars

(***************************************************************************)
(* Properties of the tracks of an animation                                *)
(***************************************************************************)
Children(g, n) == {g[n].children[i] : i \in 1..Len(g[n].children)}

\* The nodes of the subtrees rooted at the nodes of S.
RECURSIVE Reach(_, _)
Reach(g, S) ==
    LET next == S \cup UNION {Children(g, n) : n \in S}
    IN  IF next = S THEN S ELSE Reach(g, next)

Subtree(g, root) == Reach(g, {root})

\* C21: after set_tracks_enabled_from(node, enabled, graph) every track
\* bound to a node of the subtree rooted at node has the given enabled
\* flag, every track bound to a node outside the subtree is unchanged, and
\* the same call once more changes nothing.
C21_SubtreeTracksEnabled ==
    [][last'.op = "set_tracks_enabled_from" =>
        LET handle == last'.arg.handle
            enabled == last'.arg.enabled
        IN  /\ Len(anim'.tracks) = Len(anim.tracks)
            /\ \A i \in 1..Len(anim.tracks) :
                IF anim.tracks[i].node \in Subtree(graph, handle)
                THEN anim'.tracks[i] = enable(anim.tracks[i], enabled)
                ELSE anim'.tracks[i] = anim.tracks[i]
            /\ set_tracks_enabled_from(anim', handle, enabled, graph) = anim']_vars

\* The positions of the enabled tracks with key frames that are bound to
\* the node.
Contributing(tracks, n) ==
    {i \in 1..Len(tracks) :
        tracks[i].node = n /\ tracks[i].enabled /\ tracks[i].frames # <<>>}

\* C22: a tick rebuilds the pose cache from scratch at the time position
\* held before the tick advanced it.  The cache has an entry for a node if
\* and only if an enabled track with key frames is bound to the node;
\* disabled and empty tracks contribute nothing and entries of the tick
\* before do not survive.  Disabling a track leaves its frames and its
\* max_time as they were.
C22_PoseRebuiltFromEnabledTracks ==
    [][/\ last'.op = "tick" =>
            /\ anim'.tracks = anim.tracks
            /\ DOMAIN anim'.pose =
                    {n \in 0..4 : Contributing(anim.tracks, n) # {}}
            /\ \A n \in DOMAIN anim'.pose :
                \E i \in Contributing(anim.tracks, n) :
                    anim'.pose[n] =
                        get_local_pose(anim.tracks[i], anim.time_position).value
       /\ last'.op \in {"set_tracks_enabled_from", "set_node_track_enabled"} =>
            /\ Len(anim'.tracks) = Len(anim.tracks)
            /\ \A i \in 1..Len(anim.tracks) :
                /\ anim'.tracks[i].frames = anim.tracks[i].frames
                /\ anim'.tracks[i].max_time = anim.tracks[i].max_time
                /\ anim'.tracks[i].node = anim.tracks[i].node]_vars

\* A tick from time 1 has just run over a disabled track that still has
\* its key frames and over an enabled one: the cache has the entry of the
\* enabled track only, sampled at time 1, and the animation has moved on.
C22_Witness ==
    /\ last.op = "tick"
    /\ last.time = 1
    /\ anim.time_position # 1
    /\ \E i, j \in 1..Len(anim.tracks) :
        /\ ~anim.tracks[i].enabled
        /\ anim.tracks[i].frames # <<>>
        /\ anim.tracks[i].max_time = 2
        /\ anim.tracks[j].enabled
        /\ anim.tracks[j].frames # <<>>
        /\ DOMAIN anim.pose = {anim.tracks[j].node}
        /\ anim.pose[anim.tracks[j].node].position = Rat(1, 1)

(***************************************************************************)
(* Properties of the interpolation                                         *)
(***************************************************************************)
\* The track has just been sampled at a time strictly between the time of
\* its first frame and its max_time, and its frames are in time order.
SampledInside ==
    /\ last.op = "sample"
    /\ track.frames # <<>>
    /\ Sorted(track.frames)
    /\ track.frames[1].time < last.arg
    /\ last.arg < track.max_time

\* The result is the interpolation of the frame before the first frame
\* with a time >= time and that frame, by a factor in (0, 1].
InterpolatedAt(time) ==
    LET found == {i \in 1..Len(track.frames) : track.frames[i].time >= time}
    IN  /\ found # {}
        /\ Min(found) > 1
        /\ LET right == track.frames[Min(found)]
               left == track.frames[Min(found) - 1]
               tn == time - left.time
               td == right.time - left.time
           IN  /\ left.time < time
               /\ time <= right.time
               /\ td # 0
               /\ 0 < tn /\ tn <= td
               /\ result.some
               /\ result.value.position =
                     Rat(left.position * td + (right.position - left.position) * tn, td)
               /\ result.value.scale =
                     Rat(left.scale * td + (right.scale - left.scale) * tn, td)
               /\ (2 * tn = td) =>
                     /\ result.value.position = Rat(left.position + right.position, 2)
                     /\ result.value.scale = Rat(left.scale + right.scale, 2)

\* C23 as stated: for frames in time order and a query time strictly between
\* the time of the first frame and max_time, the right frame is the first
\* one with a time >= the query time, the left frame its predecessor,
\* left.time < time <= right.time, the divisor is not zero, the factor
\* lies in (0, 1], and position and scale are interpolated linearly.
C23_Interpolation == SampledInside => InterpolatedAt(last.arg)

\* C23, amended: the same with the query time raised to 0 when it is
\* negative, as long as a frame with a time >= 0 exists; when every frame
\* has a negative time the result is the first frame.
C23_InterpolationOfClampedTime ==
    SampledInside =>
        /\ last.arg >= 0 => InterpolatedAt(last.arg)
        /\ last.arg < 0 =>
            IF \E i \in 1..Len(track.frames) : track.frames[i].time >= 0
            THEN InterpolatedAt(0)
            ELSE result = Some(PoseOfKeyFrame(track.node, track.frames[1]))

\* A track with frames at -1 and 1 has just been sampled at 0: the result
\* is the midpoint of the two frames, position 2 and scale 3.
C23_Witness ==
    /\ SampledInside
    /\ last.arg = 0
    /\ Len(track.frames) = 2
    /\ track.frames[1] = KeyFrame(-1, 0, 1, 0)
    /\ track.frames[2] = KeyFrame(1, 4, 5, 8)
    /\ result = Some(LocalPose(track.node, Rat(2, 1), Rat(3, 1), Rat(4, 1)))

(***************************************************************************)
(* Properties of playback                                                  *)
(***************************************************************************)
\* C24: an enabled one-shot animation with a positive speed, updated again
\* and again with one positive dt, eventually has ended, and from then on
\* every update leaves it ended with time_position = length and adds no
\* event to its queue.
C24_EndsAndStaysEnded ==
    /\ <>[]has_ended(anim)
    /\ [][has_ended(anim) =>
            /\ has_ended(anim')
            /\ anim'.time_position = anim'.length
            /\ anim'.events = anim.events]_vars

\* The ids of the signals whose time the playback passes when it moves
\* from `from` forward to `to`, wrapping around at length (to - from is
\* less than length): those in (from, to], and after a wrap those in
\* (0, to - length].
RECURSIVE PassedIds(_, _, _, _)
PassedIds(signals, from, to, length) ==
    IF signals = <<>> THEN <<>>
    ELSE (IF \/ from < Head(signals).time /\ Head(signals).time <= to
             \/ to >= length /\ Head(signals).time <= to - length
          THEN <<Head(signals).id>> ELSE <<>>)
         \o PassedIds(Tail(signals), from, to, length)

\* C25: in a looped animation ticked forward by less than its length, with
\* the event queue drained, every signal strictly inside the timeline
\* produces exactly one event on each pass: a tick queues one event for
\* each signal whose time it passes, also for those it passes after
\* wrapping around the end.
C25_OneEventPerPass ==
    [][last'.op = "tick" =>
          anim'.events
            = [i \in 1..Len(PassedIds(anim.signals, last'.time, last'.new,
                                      anim.length)) |->
                 AnimationEvent(PassedIds(anim.signals, last'.time, last'.new,
                                          anim.length)[i])]]_vars

(***************************************************************************)
(* Properties of the length of an animation                                *)
(***************************************************************************)
\* C26: in every state reached through add_track, resolve and writes to the
\* tracks through get_tracks_mut, the length of the animation is at least
\* the max_time of each of its tracks.
C26_LengthCoversTracks ==
    \A i \in 1..Len(anim.tracks) : anim.length >= anim.tracks[i].max_time

(***************************************************************************)
(* Properties of the enabled flag of a signal                              *)
(***************************************************************************)
\* The signals a tick from `from` to `to` crosses whose enabled flag is set.
EnabledCrossed(signals, from, to) ==
    {i \in 1..Len(signals) :
        /\ AnimationSignal_is_enabled(signals[i])
        /\ from < signals[i].time
        /\ signals[i].time <= to}

\* C27: a signal whose enabled flag was cleared with set_enabled(false)
\* produces no event when a tick crosses its time: a tick adds one event to
\* the queue for each enabled signal it crosses, and none for the others.
C27_DisabledSignalSilent ==
    [][last'.op = "tick" =>
          Len(anim'.events)
            = Min({EventCap,
                   Len(anim.events)
                     + Cardinality(EnabledCrossed(anim.signals, last'.time,
                                                  last'.new))})]_vars

====
